---- MODULE Spec2Model ----
(***************************************************************************)
(* Model of the ops-sim messaging core:                                    *)
(*   - MessageUtils (message-utils.ts): envelope creation, validation,     *)
(*     checksum, per-node sequence allocator, duplicate test;              *)
(*   - KafkaConsumer.handleMessage (kafka-consumer.ts): validation,        *)
(*     duplicate suppression with a bounded seen-set;                      *)
(*   - ChaosProxy (chaos-proxy.ts): seeded drop / duplicate / delay /      *)
(*     reorder decisions.                                                  *)
(* JavaScript values are records [t |-> type tag, v |-> value]; strings    *)
(* that are hashed are sequences of UTF-16 code units.                     *)
(***************************************************************************)
EXTENDS Integers, Sequences, FiniteSets, TLC

VARIABLES
    sequenceCounters,  \* MessageUtils.sequenceCounters : Map<string, number>
    uuidCount,         \* number of uuidv4() values handed out so far
    issued,            \* history: sequence numbers returned per node since its reset
    lastMsg,           \* history: outcome of the last createMessage call
    published,         \* history: the records KafkaProducer.sendMessage published
    arg,               \* input of a pure-function application
    res,               \* outcome of a pure-function application
    seenMessageIds,    \* KafkaConsumer.seenMessageIds : Set<string>, in insertion order
    messageHandlers,   \* KafkaConsumer.messageHandlers : the types with a handler
    awaiting,          \* handleMessage invocations suspended in "await handler(envelope)"
    handlerCalls,      \* history: handler invocations per messageId
    insertedAt,        \* history: the record step that last inserted each messageId
    idsDelivered,      \* history: how many distinct messageIds were delivered
    recordCount,       \* history: number of record steps so far
    lastOp,            \* history: the consumer operation of the last step
    proxy,             \* the ChaosProxy instances, each a record of its fields
    nCalls,            \* number of calls made on the ChaosProxy instances
    lastStep,          \* history: the ChaosProxy operation of the last step
    isConnected        \* KafkaProducer.isConnected and KafkaConsumer.isConnected

msgVars == <<sequenceCounters, uuidCount, issued, lastMsg, published>>
fnVars == <<arg, res>>
consVars == <<seenMessageIds, messageHandlers, awaiting, handlerCalls, insertedAt,
              idsDelivered, recordCount, lastOp>>
chaosVars == <<proxy, nCalls, lastStep, isConnected>>
vars == <<msgVars, fnVars, consVars, chaosVars>>

(***************************************************************************)
(* Bounds of the model.                                                    *)
(***************************************************************************)
MaxPayloadLen == 4     \* longest string payload
MaxMessages == 3       \* createMessage calls per behaviour
MaxIds == 6            \* distinct messageIds delivered to a consumer
MaxRecords == 6        \* record steps of a consumer per behaviour
MaxAwaiting == 1       \* handler invocations in progress at a time
MaxCalls == 3          \* calls made on a ChaosProxy per behaviour
\* The seen-set capacity and the eviction batch, scaled down from the
\* source's 10000 (kafka-consumer.ts line 21) and 1000 (line 94).
maxSeenIds == 3
EvictBatch == 2

(***************************************************************************)
(* JavaScript values.                                                      *)
(***************************************************************************)
Undef == [t |-> "undefined", v |-> 0]
Null == [t |-> "null", v |-> 0]
NaN == [t |-> "NaN", v |-> 0]
Num(n) == [t |-> "number", v |-> n]
Str(s) == [t |-> "string", v |-> s]     \* s: a TLA+ string (identifiers)
Text(codes) == [t |-> "string", v |-> codes]  \* codes: UTF-16 code units

\* !x for the values above (x an identifier-valued field).
Falsy(x) ==
    CASE x.t = "undefined" -> TRUE
      [] x.t = "null" -> TRUE
      [] x.t = "NaN" -> TRUE
      [] x.t = "number" -> x.v = 0
      [] x.t = "string" -> x.v = ""

\* x <= 0 : ToNumber(undefined) and NaN compare false, ToNumber(null) is 0.
LeZero(x) ==
    CASE x.t = "number" -> x.v <= 0
      [] x.t = "null" -> TRUE
      [] OTHER -> FALSE

(***************************************************************************)
(* 32-bit integers as <<high 16 bits, low 16 bits>> of the two's           *)
(* complement pattern, so that the wrap-around of the checksum loop is     *)
(* computed exactly.                                                       *)
(***************************************************************************)
W16 == 65536
Zero32 == <<0, 0>>

\* hash << 5
Shl5(h) ==
    LET lo == h[2] * 32
    IN  <<(h[1] * 32 + (lo \div W16)) % W16, lo % W16>>

\* a - b (mod 2^32)
Sub32(a, b) ==
    LET lo == a[2] - b[2]
        borrow == IF lo < 0 THEN 1 ELSE 0
    IN  <<(a[1] - b[1] - borrow + 2 * W16) % W16, (lo + W16) % W16>>

\* a + c (mod 2^32), 0 <= c < 2^16
Add32(a, c) ==
    LET lo == a[2] + c
    IN  <<(a[1] + (lo \div W16)) % W16, lo % W16>>

IsNegative32(h) == h[1] >= 32768

HexDigit(d) == IF d < 10 THEN 48 + d ELSE 87 + d

RECURSIVE HexOf(_)
HexOf(n) ==
    IF n < 16 THEN <<HexDigit(n)>>
    ELSE HexOf(n \div 16) \o <<HexDigit(n % 16)>>

Hex4(n) ==
    <<HexDigit(n \div 4096), HexDigit((n \div 256) % 16),
      HexDigit((n \div 16) % 16), HexDigit(n % 16)>>

\* Number.prototype.toString(16) of a 32-bit integer: sign, then magnitude.
toString16(h) ==
    LET m == IF IsNegative32(h) THEN Sub32(Zero32, h) ELSE h
        digits == IF m[1] = 0 THEN HexOf(m[2]) ELSE HexOf(m[1]) \o Hex4(m[2])
    IN  IF IsNegative32(h) THEN <<45>> \o digits ELSE digits

RECURSIVE DecOf(_)
DecOf(n) ==
    IF n < 10 THEN <<48 + n>>
    ELSE DecOf(n \div 10) \o <<48 + (n % 10)>>

(***************************************************************************)
(* JSON.stringify of a payload: a string value is quoted (the payload      *)
(* alphabet needs no escapes), a non-negative integer is its decimal       *)
(* digits, null and NaN both give "null", undefined gives undefined.       *)
(***************************************************************************)
JSONstringify(payload) ==
    CASE payload.t = "string" -> Text(<<34>> \o payload.v \o <<34>>)
      [] payload.t = "number" -> Text(DecOf(payload.v))
      [] payload.t = "null" -> Text(<<110, 117, 108, 108>>)
      [] payload.t = "NaN" -> Text(<<110, 117, 108, 108>>)
      [] payload.t = "undefined" -> Undef

\* One round of the loop: hash = ((hash << 5) - hash) + char; hash = hash & hash.
hashStep(hash, char) == Add32(Sub32(Shl5(hash), hash), char)

RECURSIVE hashLoop(_, _, _)
hashLoop(str, i, hash) ==
    IF i > Len(str) THEN hash
    ELSE hashLoop(str, i + 1, hashStep(hash, str[i]))

\* MessageUtils.calculateChecksum: reading .length of an undefined
\* payloadStr raises a TypeError.
calculateChecksum(payload) ==
    LET payloadStr == JSONstringify(payload)
    IN  IF payloadStr.t = "undefined"
        THEN [threw |-> TRUE, value |-> Undef]
        ELSE [threw |-> FALSE,
              value |-> Text(toString16(hashLoop(payloadStr.v, 1, Zero32)))]

(***************************************************************************)
(* MessageUtils.validateMessage.  Outcome: [threw, ret].                   *)
(***************************************************************************)
Returned(b) == [threw |-> FALSE, ret |-> b]
Thrown == [threw |-> TRUE, ret |-> FALSE]

\* Mutant: the checksum comparison is left out.
validateMessageNoChecksum(envelope) ==
    IF Falsy(envelope.messageId) \/ Falsy(envelope.sourceNode)
          \/ Falsy(envelope.messageType)
    THEN Returned(FALSE)
    ELSE IF LeZero(envelope.sequenceNumber)
    THEN Returned(FALSE)
    ELSE IF calculateChecksum(envelope.payload).threw THEN Thrown
    ELSE Returned(TRUE)

validateMessage(envelope) ==
    IF Falsy(envelope.messageId) \/ Falsy(envelope.sourceNode)
          \/ Falsy(envelope.messageType)
    THEN Returned(FALSE)
    ELSE IF LeZero(envelope.sequenceNumber)
    THEN Returned(FALSE)
    ELSE LET expectedChecksum == calculateChecksum(envelope.payload)
         IN  IF expectedChecksum.threw THEN Thrown
             ELSE IF envelope.checksum # expectedChecksum.value
             THEN Returned(FALSE)
             ELSE Returned(TRUE)

(***************************************************************************)
(* MessageUtils.createMessage and the sequence allocator.                  *)
(***************************************************************************)
Nodes == {"sat-1", "ground"}
MessageTypes == {"TELEMETRY", "COMMAND"}
Alphabet == {65, 66, 97}     \* "A", "B", "a"

RECURSIVE StringsUpTo(_)
StringsUpTo(n) ==
    IF n = 0 THEN {<<>>}
    ELSE LET shorter == StringsUpTo(n - 1)
         IN  shorter \cup {Append(s, c) : s \in {x \in shorter : Len(x) = n - 1},
                                           c \in Alphabet}

Payloads ==
    {Text(s) : s \in StringsUpTo(MaxPayloadLen)}
        \cup {Num(0), Num(7), Num(12345678), Null, NaN, Undef}

\* The payloads createMessage is driven with in SpecMsg.
SamplePayloads == {Text(<<65>>), Text(<<65, 97>>), Num(7), Null, Undef}

NoEnvelope == [none |-> TRUE]

uuidv4(n) == Str("u" \o ToString(n + 1))

\* this.sequenceCounters.get(sourceNode) || 0
getSequenceCounter(counters, sourceNode) ==
    IF sourceNode \in DOMAIN counters THEN counters[sourceNode] ELSE 0

MapSet(m, k, x) == [y \in DOMAIN m \cup {k} |-> IF y = k THEN x ELSE m[y]]
MapDelete(m, k) == [y \in DOMAIN m \ {k} |-> m[y]]
EmptyMap == [y \in {} |-> 0]

\* The counter is stored before the envelope literal is evaluated; the
\* literal calls uuidv4() and then calculateChecksum(payload), which may throw.
createMessage(counters, uuids, sourceNode, messageType, payload, destinationNode, now) ==
    LET currentSeq == getSequenceCounter(counters, sourceNode)
        sequenceNumber == currentSeq + 1
        checksum == calculateChecksum(payload)
    IN  [threw |-> checksum.threw,
         counters |-> MapSet(counters, sourceNode, sequenceNumber),
         uuids |-> uuids + 1,
         envelope |->
            IF checksum.threw THEN NoEnvelope
            ELSE [messageId |-> uuidv4(uuids),
                  sequenceNumber |-> Num(sequenceNumber),
                  sourceNode |-> Str(sourceNode),
                  destinationNode |->
                      IF Falsy(destinationNode) THEN Str("") ELSE destinationNode,
                  messageType |-> Str(messageType),
                  timestamp |-> Num(now),
                  payload |-> payload,
                  checksum |-> checksum.value]]

resetSequenceCounter(counters, sourceNode) == MapDelete(counters, sourceNode)

NoCall == [op |-> "none", threw |-> FALSE, envelope |-> NoEnvelope]

\* No ChaosProxy has been constructed.
NoStep == [op |-> "none", i |-> 0, call |-> 0, ok |-> TRUE, newConfig |-> <<>>]
\* Both nodes after their connect().
Connected == [producer |-> TRUE, consumer |-> TRUE]

InitNoProxy ==
    proxy = <<>> /\ nCalls = 0 /\ lastStep = NoStep /\ isConnected = Connected

InitFn ==
    /\ arg = [kind |-> "none"]
    /\ res = [done |-> FALSE]

InitMsgVars ==
    /\ sequenceCounters = EmptyMap
    /\ uuidCount = 0
    /\ issued = [n \in Nodes |-> <<>>]
    /\ lastMsg = NoCall
    /\ published = <<>>

(***************************************************************************)
(* KafkaConsumer: the seen-set and handleMessage.                          *)
(* A JavaScript Set iterates in insertion order, so the seen-set is a      *)
(* sequence without repeats.                                               *)
(***************************************************************************)
SetHas(s, x) == \E i \in 1..Len(s) : s[i] = x
SetAdd(s, x) == IF SetHas(s, x) THEN s ELSE Append(s, x)
SetDelete(s, x) == SelectSeq(s, LAMBDA y : y # x)
Elements(s) == {s[i] : i \in 1..Len(s)}

\* Array.from(set).slice(0, n)
sliceFirst(s, n) == SubSeq(s, 1, IF n < Len(s) THEN n ELSE Len(s))

\* toDelete.forEach(id => set.delete(id))
RECURSIVE deleteEach(_, _)
deleteEach(s, toDelete) ==
    IF toDelete = <<>> THEN s
    ELSE deleteEach(SetDelete(s, Head(toDelete)), Tail(toDelete))

\* Mutant: the membership test also records the id.
isDuplicateMessageRecording(messageId, seen) ==
    [ret |-> SetHas(seen, messageId), seen |-> SetAdd(seen, messageId)]

\* Mutant: the membership test never finds the id.
isDuplicateMessageNever(messageId, seen) ==
    [ret |-> FALSE, seen |-> seen]

\* MessageUtils.isDuplicateMessage: the value returned and the set as the
\* call leaves it.
isDuplicateMessage(messageId, seen) ==
    [ret |-> SetHas(seen, messageId), seen |-> seen]

\* Mutant: the size test is off by one.
evictIfFullLate(seen) ==
    IF Len(seen) > maxSeenIds + 1
    THEN deleteEach(seen, sliceFirst(seen, EvictBatch))
    ELSE seen

\* Mutant: the newest entries are removed instead of the oldest.
evictIfFullNewest(seen) ==
    IF Len(seen) > maxSeenIds
    THEN SubSeq(seen, 1, Len(seen) - EvictBatch)
    ELSE seen

\* handleMessage lines 92-96: the cleanup after the insertion.
evictIfFull(seen) ==
    IF Len(seen) > maxSeenIds
    THEN deleteEach(seen, sliceFirst(seen, EvictBatch))
    ELSE seen

\* handleMessage lines 90-96.
recordSeen(seen, messageId) == evictIfFull(SetAdd(seen, messageId))

(***************************************************************************)
(* The records a consumer is handed.  value is the record's text: empty,   *)
(* not JSON, or the JSON of an envelope (env is what JSON.parse returns).  *)
(***************************************************************************)
GoodPayload == Text(<<65>>)
GoodChecksum == calculateChecksum(GoodPayload).value

WireEnvelope(k, ty, flaw) ==
    [messageId |-> Str("u" \o ToString(k)),
     sequenceNumber |-> IF flaw = "sequence" THEN Num(0) ELSE Num(1),
     sourceNode |-> Str("sat-1"),
     destinationNode |-> Str(""),
     messageType |-> Str(ty),
     timestamp |-> Num(1),
     payload |-> IF flaw = "payload" THEN Undef ELSE GoodPayload,
     checksum |-> IF flaw = "checksum" THEN Text(<<48>>) ELSE GoodChecksum]

Flaws == {"none", "sequence", "payload", "checksum"}

EmptyRecord == [value |-> "empty", env |-> NoEnvelope]
GarbageRecord == [value |-> "garbage", env |-> NoEnvelope]
JsonRecord(k, ty, flaw) == [value |-> "json", env |-> WireEnvelope(k, ty, flaw)]

\* Mutant: the envelope is not validated before the duplicate check.
handleMessageNoValidation(seen, handlers, record) ==
    IF record.value = "empty" THEN [outcome |-> "empty", seen |-> seen, invoked |-> FALSE]
    ELSE IF record.value = "garbage"
    THEN [outcome |-> "parse-error", seen |-> seen, invoked |-> FALSE]
    ELSE LET envelope == record.env
             dup == isDuplicateMessage(envelope.messageId.v, seen)
         IN  IF dup.ret
             THEN [outcome |-> "duplicate", seen |-> dup.seen, invoked |-> FALSE]
             ELSE [outcome |-> "recorded",
                   seen |-> recordSeen(dup.seen, envelope.messageId.v),
                   invoked |-> envelope.messageType.v \in handlers]

\* handleMessage up to its "await handler(envelope)": the outcome, the
\* seen-set it leaves and whether the type handler was invoked.  Every
\* exception is caught by the try/catch around the body.
handleMessage(seen, handlers, record) ==
    IF record.value = "empty" THEN [outcome |-> "empty", seen |-> seen, invoked |-> FALSE]
    ELSE IF record.value = "garbage"
    THEN [outcome |-> "parse-error", seen |-> seen, invoked |-> FALSE]
    ELSE LET envelope == record.env
             valid == validateMessage(envelope)
             dup == isDuplicateMessage(envelope.messageId.v, seen)
         IN  IF valid.threw
             THEN [outcome |-> "validate-threw", seen |-> seen, invoked |-> FALSE]
             ELSE IF ~valid.ret
             THEN [outcome |-> "invalid", seen |-> seen, invoked |-> FALSE]
             ELSE IF dup.ret
             THEN [outcome |-> "duplicate", seen |-> dup.seen, invoked |-> FALSE]
             ELSE [outcome |-> "recorded",
                   seen |-> recordSeen(dup.seen, envelope.messageId.v),
                   invoked |-> envelope.messageType.v \in handlers]

IdName(k) == "u" \o ToString(k)
IdNames == {IdName(k) : k \in 1..MaxIds}
HandledTypes == {"TELEMETRY"}     \* the types the application registers

\* What MessageUtils.validateMessage gives for the text a record carries:
\* "none" when there is no envelope to validate (no value, or not JSON).
validationOf(record) ==
    IF record.value # "json" THEN "none"
    ELSE LET valid == validateMessage(record.env)
         IN  IF valid.threw THEN "threw"
             ELSE IF valid.ret THEN "true" ELSE "false"

NoOp == [op |-> "none", id |-> "", outcome |-> "", evicted |-> {},
         validation |-> "none"]

InitConsVars ==
    /\ seenMessageIds = <<>>
    /\ messageHandlers = {}
    /\ awaiting = [i \in IdNames |-> 0]
    /\ handlerCalls = [i \in IdNames |-> 0]
    /\ insertedAt = [i \in IdNames |-> 0]
    /\ idsDelivered = 0
    /\ recordCount = 0
    /\ lastOp = NoOp

InitConsumer == InitMsgVars /\ InitFn /\ InitConsVars /\ InitNoProxy

\* consumer.onMessage(messageType, handler)
OnMessage(ty) ==
    /\ ty \notin messageHandlers
    /\ messageHandlers' = messageHandlers \cup {ty}
    /\ lastOp' = [NoOp EXCEPT !.op = "onMessage"]
    /\ UNCHANGED <<seenMessageIds, awaiting, handlerCalls, insertedAt, idsDelivered,
                   recordCount>>
    /\ UNCHANGED <<msgVars, fnVars, chaosVars>>

\* The ids a new record may carry: one delivered before, or the next fresh one.
DeliverableIds == 1..(IF idsDelivered < MaxIds THEN idsDelivered + 1 ELSE MaxIds)

RECURSIVE SumOver(_, _)
SumOver(f, S) ==
    IF S = {} THEN 0
    ELSE LET x == CHOOSE y \in S : TRUE IN f[x] + SumOver(f, S \ {x})

\* One handleMessage invocation, from its call to its first suspension (the
\* await of the handler) or to its return.  insertedAt and handlerCalls are
\* kept for the ids in the seen-set and forgotten when an id is evicted.
HandleMessage(k, record) ==
    \E r \in {handleMessage(seenMessageIds, messageHandlers, record)} :
    LET id == IF record.value = "json" THEN record.env.messageId.v ELSE ""
        recorded == r.outcome = "recorded"
        removed == (Elements(seenMessageIds) \cup (IF recorded THEN {id} ELSE {}))
                       \ Elements(r.seen)
    IN  /\ recorded => recordCount < MaxRecords
        /\ r.invoked => SumOver(awaiting, IdNames) < MaxAwaiting
        /\ seenMessageIds' = r.seen
        /\ recordCount' = IF recorded THEN recordCount + 1 ELSE recordCount
        /\ idsDelivered' = IF k > idsDelivered THEN k ELSE idsDelivered
        /\ insertedAt' = [i \in IdNames |->
               IF i \in removed THEN 0
               ELSE IF recorded /\ i = id THEN recordCount + 1
               ELSE insertedAt[i]]
        /\ handlerCalls' = [i \in IdNames |->
               IF i \in removed THEN 0
               ELSE IF r.invoked /\ i = id THEN handlerCalls[i] + 1
               ELSE handlerCalls[i]]
        /\ awaiting' = IF r.invoked THEN [awaiting EXCEPT ![id] = @ + 1] ELSE awaiting
        /\ lastOp' = [op |-> "handleMessage",
                      id |-> IF r.outcome \in {"recorded", "duplicate"} THEN id ELSE "",
                      outcome |-> r.outcome,
                      evicted |-> removed,
                      validation |-> validationOf(record)]
        /\ UNCHANGED messageHandlers
        /\ UNCHANGED <<msgVars, fnVars, chaosVars>>

\* The awaited handler settles (it returns, or it throws and the catch of
\* handleMessage logs the error); the invocation ends.
HandlerSettles(id) ==
    /\ awaiting[id] > 0
    /\ awaiting' = [awaiting EXCEPT ![id] = @ - 1]
    /\ lastOp' = [NoOp EXCEPT !.op = "settle"]
    /\ UNCHANGED <<seenMessageIds, messageHandlers, handlerCalls, insertedAt,
                   idsDelivered, recordCount>>
    /\ UNCHANGED <<msgVars, fnVars, chaosVars>>

\* A call of MessageUtils.isDuplicateMessage on the consumer's seen-set.
CheckDuplicate(id) ==
    LET r == isDuplicateMessage(id, seenMessageIds)
    IN  /\ seenMessageIds' = r.seen
        /\ lastOp' = [op |-> "isDuplicateMessage", id |-> id,
                      outcome |-> IF r.ret THEN "true" ELSE "false",
                      evicted |-> {}, validation |-> "none"]
        /\ UNCHANGED <<messageHandlers, awaiting, handlerCalls, insertedAt,
                       idsDelivered, recordCount>>
        /\ UNCHANGED <<msgVars, fnVars, chaosVars>>

NextConsumer ==
    \/ \E ty \in HandledTypes : OnMessage(ty)
    \/ HandleMessage(0, EmptyRecord)
    \/ HandleMessage(0, GarbageRecord)
    \/ \E k \in DeliverableIds, ty \in MessageTypes :
           HandleMessage(k, JsonRecord(k, ty, "none"))
    \/ \E flaw \in Flaws \ {"none"} :
           HandleMessage(0, JsonRecord(1, "TELEMETRY", flaw))
    \/ \E id \in IdNames : HandlerSettles(id)
    \/ \E k \in DeliverableIds : CheckDuplicate(IdName(k))

SpecConsumer == InitConsumer /\ [][NextConsumer]_vars

(***************************************************************************)
(* Specification SpecMsg: the allocator driven by createMessage and        *)
(* resetSequenceCounter calls for several nodes.                           *)
(***************************************************************************)
InitMsg == InitMsgVars /\ InitFn /\ InitConsVars /\ InitNoProxy

CreateMessage(n, ty, p, d) ==
    /\ uuidCount < MaxMessages
    /\ \E r \in {createMessage(sequenceCounters, uuidCount, n, ty, p, d, 1)} :
           /\ sequenceCounters' = r.counters
           /\ uuidCount' = r.uuids
           /\ issued' = IF r.threw THEN issued
                        ELSE [issued EXCEPT ![n] = Append(@, r.envelope.sequenceNumber.v)]
           /\ lastMsg' = [op |-> "create", threw |-> r.threw, envelope |-> r.envelope]
    /\ UNCHANGED <<published, fnVars, consVars, chaosVars>>

ResetSequenceCounter(n) ==
    /\ sequenceCounters' = resetSequenceCounter(sequenceCounters, n)
    /\ issued' = [issued EXCEPT ![n] = <<>>]
    /\ lastMsg' = NoCall
    /\ UNCHANGED <<uuidCount, published, fnVars, consVars, chaosVars>>

NextMsg ==
    \/ \E n \in Nodes, ty \in MessageTypes, p \in SamplePayloads,
          d \in {Undef, Str("ground")} :
           CreateMessage(n, ty, p, d)
    \/ \E n \in Nodes : ResetSequenceCounter(n)

SpecMsg == InitMsg /\ [][NextMsg]_vars

(***************************************************************************)
(* Specification SpecPure: validateMessage applied to arbitrary parsed     *)
(* envelopes (fields may be missing), and to a created envelope whose      *)
(* payload was replaced while its checksum field was kept.                 *)
(***************************************************************************)
ProbePayloads == {Undef, Null, Text(<<65>>), Text(<<65, 97>>), Text(<<66, 66>>)}

ProbeChecksums ==
    {Undef, Text(<<>>)}
        \cup {calculateChecksum(p).value : p \in ProbePayloads \ {Undef}}

EnvelopeInputs ==
    [messageId : {Undef, Str(""), Str("u1")},
     sequenceNumber : {Undef, NaN, Null, Num(-1), Num(0), Num(1), Num(2)},
     sourceNode : {Undef, Str(""), Str("sat-1")},
     destinationNode : {Str("")},
     messageType : {Undef, Str("TELEMETRY")},
     timestamp : {Undef, Num(1)},
     payload : ProbePayloads,
     checksum : ProbeChecksums]

ValidateArgs == [kind : {"validate"}, env : EnvelopeInputs]

TamperArgs ==
    {a \in [kind : {"tamper"}, p : Payloads \ {Undef}, q : Payloads] : a.p # a.q}

\* The envelope createMessage returns for payload p from a fresh allocator.
Created(p) ==
    createMessage(EmptyMap, 0, "sat-1", "TELEMETRY", p, Undef, 1).envelope

InitPure ==
    /\ InitMsgVars
    /\ InitConsVars
    /\ InitNoProxy
    /\ res = [done |-> FALSE]
    /\ \/ arg \in ValidateArgs
       \/ arg \in TamperArgs

ApplyValidate ==
    /\ ~res.done
    /\ arg.kind = "validate"
    /\ res' = [done |-> TRUE, out |-> validateMessage(arg.env)]
    /\ UNCHANGED <<arg, msgVars, consVars, chaosVars>>

ApplyTamper ==
    /\ ~res.done
    /\ arg.kind = "tamper"
    /\ res' = [done |-> TRUE,
               out |-> validateMessage([Created(arg.p) EXCEPT !.payload = arg.q])]
    /\ UNCHANGED <<arg, msgVars, consVars, chaosVars>>

NextPure == ApplyValidate \/ ApplyTamper

SpecPure == InitPure /\ [][NextPure]_vars

(***************************************************************************)
(* Claims about MessageUtils.                                              *)
(***************************************************************************)

\* C2: for every node, the sequence numbers createMessage returned for it
\* since the allocator was empty or reset are exactly 1, 2, ..., N in call
\* order, without gap or repeat, whatever was created for other nodes.
C2_SequenceMonotonic ==
    \A n \in Nodes :
        \A i \in 1..Len(issued[n]) : issued[n][i] = i

\* C3: validateMessage(createMessage(node, type, P)) returns true for every
\* payload P.
C3_RoundTrip ==
    lastMsg.op = "create" =>
        /\ ~lastMsg.threw
        /\ validateMessage(lastMsg.envelope) = Returned(TRUE)

Accepted(out) == ~out.threw /\ out.ret

\* Two strings of equal length that differ in exactly one position.
SingleEdit(p, q) ==
    /\ p.t = "string" /\ q.t = "string"
    /\ Len(p.v) = Len(q.v)
    /\ Cardinality({i \in 1..Len(p.v) : p.v[i] # q.v[i]}) = 1

RequiredPresent(e) ==
    ~Falsy(e.messageId) /\ ~Falsy(e.sourceNode) /\ ~Falsy(e.messageType)

ChecksumMatches(e) ==
    /\ ~calculateChecksum(e.payload).threw
    /\ e.checksum = calculateChecksum(e.payload).value

PositiveSequence(e) == e.sequenceNumber.t = "number" /\ e.sequenceNumber.v > 0

\* C5: validateMessage(e) returns true iff the required fields are present
\* and non-empty, sequenceNumber is a positive number and the checksum is
\* that of the payload.
C5_ValidateIff ==
    (res.done /\ arg.kind = "validate") =>
        (Accepted(res.out) <=>
            /\ RequiredPresent(arg.env)
            /\ PositiveSequence(arg.env)
            /\ ChecksumMatches(arg.env))

\* C6: validateMessage never throws, whatever the envelope.
C6_ValidateNeverThrows ==
    (res.done /\ arg.kind = "validate") => ~res.out.threw

(***************************************************************************)
(* Claims about the consumer's seen-set (specification SpecConsumer).      *)
(***************************************************************************)

\* C7: isDuplicateMessage is a pure membership test: a call returns true
\* exactly when the id is in the seen-set (so false, however often it is
\* called, for an id not yet recorded) and leaves the set as it was; and in
\* the state right after handleMessage recorded an id, isDuplicateMessage of
\* that id returns true.
C7_Dedup ==
    [][/\ lastOp'.op = "isDuplicateMessage" =>
             /\ seenMessageIds' = seenMessageIds
             /\ (lastOp'.outcome = "true") <=> SetHas(seenMessageIds, lastOp'.id)
       /\ (lastOp'.op = "handleMessage" /\ lastOp'.outcome = "recorded") =>
             isDuplicateMessage(lastOp'.id, seenMessageIds').ret]_vars

\* C7 witness: with ids already recorded, isDuplicateMessage was called for
\* an id that is not recorded and returned false.
C7_Witness ==
    /\ lastOp.op = "isDuplicateMessage"
    /\ lastOp.outcome = "false"
    /\ seenMessageIds # <<>>
    /\ recordCount > 0

\* C8: after every completed record step the seen-set holds at most
\* maxSeenIds ids.
C8_BoundedMemory == Len(seenMessageIds) <= maxSeenIds

\* C8 witness: more than maxSeenIds + EvictBatch distinct ids were delivered
\* and the last step recorded one of them.
C8_Witness ==
    /\ idsDelivered > maxSeenIds + EvictBatch
    /\ lastOp.op = "handleMessage"
    /\ lastOp.outcome = "recorded"
    /\ recordCount > maxSeenIds + EvictBatch

\* C9: when recording an id makes the seen-set exceed maxSeenIds, exactly
\* EvictBatch ids are removed, each of them inserted before every id that is
\* kept, and the id just recorded is kept.
C9_FifoEviction ==
    [][LET id == lastOp'.id
           before == Elements(seenMessageIds) \cup {id}
           removed == before \ Elements(seenMessageIds')
           stamp(x) == IF x = id THEN recordCount' ELSE insertedAt[x]
       IN  (/\ lastOp'.op = "handleMessage"
            /\ lastOp'.outcome = "recorded"
            /\ Cardinality(before) > maxSeenIds) =>
               /\ Cardinality(removed) = EvictBatch
               /\ id \notin removed
               /\ \A x \in removed : \A y \in before \ removed : stamp(x) < stamp(y)
               /\ Elements(seenMessageIds') = before \ removed]_vars

\* C9 witness: the last step recorded an id and evicted others.
C9_Witness ==
    /\ lastOp.op = "handleMessage"
    /\ lastOp.outcome = "recorded"
    /\ lastOp.evicted # {}
    /\ SetHas(seenMessageIds, lastOp.id)

\* C10: of the handleMessage invocations that deliver one messageId, at most
\* one reaches the type handler while the id stays in the seen-set
\* (handlerCalls counts the invocations since the id was last evicted).
C10_SerializedCheckThenRecord == \A id \in IdNames : handlerCalls[id] <= 1

\* C10 witness: a second record with an id arrived while the handler of the
\* first was still awaited, and was skipped as a duplicate.
C10_Witness ==
    /\ lastOp.op = "handleMessage"
    /\ lastOp.outcome = "duplicate"
    /\ awaiting[lastOp.id] > 0
    /\ handlerCalls[lastOp.id] = 1

\* C19: a handleMessage invocation on a record whose envelope validateMessage
\* rejects (returns false) invokes no type handler, so nothing is handed to a
\* registered receive wrapper, and leaves the seen-set as it was.
C19_InvalidNeverHandled ==
    [][(lastOp'.op = "handleMessage" /\ lastOp'.validation = "false") =>
           /\ handlerCalls' = handlerCalls
           /\ awaiting' = awaiting
           /\ seenMessageIds' = seenMessageIds
           /\ insertedAt' = insertedAt]_vars

\* C19 witness: a rejected envelope of a type with a registered handler was
\* delivered under an id the seen-set does not hold.
C19_Witness ==
    /\ lastOp.op = "handleMessage"
    /\ lastOp.validation = "false"
    /\ "TELEMETRY" \in messageHandlers
    /\ ~SetHas(seenMessageIds, IdName(1))

(***************************************************************************)
(* ChaosProxy.  The seeded generator: this.random is a closure over        *)
(* "state"; a draw is state / 233280 and is kept as its numerator.  Rates  *)
(* are hundredths (dropRate 0.1 is 10).                                    *)
(***************************************************************************)
LcgA == 9301
LcgC == 49297
LcgM == 233280
RateDen == 100

\* (mag * LcgA) % LcgM for mag >= 0, computed without exceeding 32 bits.
mulMod(mag) ==
    (((mag * (LcgA \div 100)) % LcgM) * 100 + mag * (LcgA % 100)) % LcgM

\* state = (state * 9301 + 49297) % 233280 ; the remainder of JavaScript
\* takes the sign of the dividend.
nextState(state) ==
    IF state >= 0 THEN (mulMod(state) + LcgC) % LcgM
    ELSE IF (-state) * LcgA <= LcgC THEN LcgC + state * LcgA
    ELSE -((mulMod(-state) - LcgC) % LcgM)

createSeededRandom(seed) == seed

\* Mutant: the comparison is inverted.
lessThanRateInverted(state, rate) == state * RateDen > rate * LcgM

\* draw < rate, for the draw state / LcgM and the rate rate / RateDen
lessThanRate(state, rate) == state * RateDen < rate * LcgM

\* Math.floor(draw * n)
floorTimes(state, n) == (state * n) \div LcgM

\* this.random(): the proxy after the draw; the draw is its state.
random(p) == [p EXCEPT !.state = nextState(@)]

(***************************************************************************)
(* A proxy is a record:                                                    *)
(*   config, stats, state, messageBuffer   the fields of the class         *)
(*   sends     processSendMessage calls suspended in "await sendFn()"      *)
(*   flushes   processReceiveMessage calls suspended in "await handler()"  *)
(*   timers    pending setTimeout callbacks                                *)
(*   decisions, delivered, sendFnCalls, results   history                  *)
(*   unhandled  errors and rejections that nothing caught (history)        *)
(*   snapshots  the objects getStats() and getConfig() have returned       *)
(* An envelope is [id, ok]: ok tells whether the handler succeeds on it.   *)
(***************************************************************************)
ZeroStats ==
    [sent |-> 0, received |-> 0, dropped |-> 0, duplicated |-> 0,
     delayed |-> 0, reordered |-> 0]

DefaultConfig ==
    [dropRate |-> 10, duplicateRate |-> 5, maxDelayMs |-> 1000,
     reorderWindow |-> 5, seed |-> 12345, enabled |-> TRUE]

\* { ...config, ...newConfig }
merge(config, newConfig) ==
    [f \in DOMAIN config |->
        IF f \in DOMAIN newConfig THEN newConfig[f] ELSE config[f]]

\* The ids of calls: those of the calls made directly (1..MaxCalls) and those
\* of the receive calls a transport makes for the messages sent.
CallIds == 1..(2 * MaxCalls)

\* new ChaosProxy(config)
ChaosProxy(config) ==
    LET c == merge(DefaultConfig, config)
    IN  [config |-> c,
         stats |-> ZeroStats,
         state |-> createSeededRandom(c.seed),
         messageBuffer |-> <<>>,
         sends |-> {},
         flushes |-> {},
         timers |-> {},
         decisions |-> {},
         delivered |-> <<>>,
         sendFnCalls |-> <<>>,
         unhandled |-> 0,
         snapshots |-> <<>>,
         results |-> [c2 \in CallIds |-> "none"]]

bump(p, counter, n) == [p EXCEPT !.stats[counter] = @ + n]

decide(p, kind, call, id, value) ==
    [p EXCEPT !.decisions = @ \cup
        {[kind |-> kind, subject |-> <<call, id>>, value |-> value]}]

invokeHandler(p, envelope, handler, via) ==
    [p EXCEPT !.delivered =
        Append(@, [id |-> envelope.id, handler |-> handler, via |-> via])]

invokeSendFn(p, call, dup) ==
    [p EXCEPT !.sendFnCalls = Append(@, [call |-> call, dup |-> dup])]

setTimeout(p, timer) == [p EXCEPT !.timers = @ \cup {timer}]

Max(a, b) == IF a >= b THEN a ELSE b

\* calculateDelay: the proxy after its draws, and the delay.
calculateDelay(p) ==
    IF p.config.maxDelayMs <= 0 THEN [p |-> p, delay |-> 0]
    ELSE LET p1 == random(p)
         IN  IF p1.state * 10 < 3 * LcgM
             THEN LET p2 == random(p1)
                      delay == floorTimes(p2.state, p2.config.maxDelayMs)
                  IN  [p |-> p2, delay |-> Max(0, delay)]
             ELSE [p |-> p1, delay |-> 0]

finish(p, call, result) == [p EXCEPT !.results[call] = result]

\* The call is suspended in "await sendFn()"; post tells whether the
\* duplicate decision follows, ok whether this sendFn invocation succeeds.
suspendSend(p, call, post, ok) ==
    [p EXCEPT !.sends = @ \cup {[call |-> call, post |-> post, ok |-> ok]},
              !.results[call] = "pending"]

\* The call is suspended in "await handler(envelope)"; rest is what the
\* flush loop still has to deliver, inFlush tells whether it is in that loop.
suspendHandler(p, call, envelope, rest, handler, inFlush) ==
    [p EXCEPT !.flushes = @ \cup
        {[call |-> call, ok |-> envelope.ok, rest |-> rest,
          handler |-> handler, inFlush |-> inFlush]}]

NoEnvelopeArg == [id |-> 0, ok |-> TRUE]

duplicateTimer(call, duplicateDelay) ==
    [kind |-> "duplicate", call |-> call, envelope |-> NoEnvelopeArg,
     handler |-> "", delay |-> duplicateDelay]

deliverTimer(call, envelope, handler, delay) ==
    [kind |-> "deliver", call |-> call, envelope |-> envelope,
     handler |-> handler, delay |-> Max(1, delay)]

\* Mutant: a dropped message is handed to sendFn before null is returned.
processSendMessageDropsAfterSend(p, call, ok) ==
    LET p0 == bump(p, "sent", 1)
    IN  IF ~p0.config.enabled
        THEN suspendSend(invokeSendFn(p0, call, FALSE), call, FALSE, ok)
        ELSE LET p1 == random(p0)
             IN  IF lessThanRate(p1.state, p1.config.dropRate)
                 THEN finish(
                          invokeSendFn(
                              decide(bump(p1, "dropped", 1), "drop", call, 0, <<1>>),
                              call, FALSE),
                          call, "null")
                 ELSE suspendSend(
                          invokeSendFn(decide(p1, "drop", call, 0, <<0>>), call, FALSE),
                          call, TRUE, ok)

\* Mutant: the enabled switch is not consulted.
processSendMessageIgnoresEnabled(p, call, ok) ==
    LET p1 == random(bump(p, "sent", 1))
    IN  IF lessThanRate(p1.state, p1.config.dropRate)
        THEN finish(decide(bump(p1, "dropped", 1), "drop", call, 0, <<1>>),
                    call, "null")
        ELSE suspendSend(
                 invokeSendFn(decide(p1, "drop", call, 0, <<0>>), call, FALSE),
                 call, TRUE, ok)

\* processSendMessage up to its return or its "await sendFn()".
processSendMessage(p, call, ok) ==
    LET p0 == bump(p, "sent", 1)
    IN  IF ~p0.config.enabled
        THEN suspendSend(invokeSendFn(p0, call, FALSE), call, FALSE, ok)
        ELSE LET p1 == random(p0)
             IN  IF lessThanRate(p1.state, p1.config.dropRate)
                 THEN finish(decide(bump(p1, "dropped", 1), "drop", call, 0, <<1>>),
                             call, "null")
                 ELSE suspendSend(
                          invokeSendFn(decide(p1, "drop", call, 0, <<0>>), call, FALSE),
                          call, TRUE, ok)

\* Mutant: a failure of sendFn is swallowed.
resumeSendIgnoresFailure(p, s, duplicateDelay) ==
    LET p0 == [p EXCEPT !.sends = @ \ {s}]
    IN  IF ~s.post THEN finish(p0, s.call, "ok")
        ELSE LET p1 == random(p0)
             IN  IF lessThanRate(p1.state, p1.config.duplicateRate)
                 THEN finish(
                          setTimeout(
                              decide(bump(p1, "duplicated", 1), "duplicate", s.call, 0, <<1>>),
                              [kind |-> "duplicate", call |-> s.call,
                               envelope |-> [id |-> 0, ok |-> TRUE],
                               handler |-> "", delay |-> duplicateDelay]),
                          s.call, "ok")
                 ELSE finish(decide(p1, "duplicate", s.call, 0, <<0>>), s.call, "ok")

\* processSendMessage from the settling of sendFn to its return.
\* duplicateDelay is the value of Math.max(1, 50 + Math.random() * 200).
resumeSend(p, s, duplicateDelay) ==
    LET p0 == [p EXCEPT !.sends = @ \ {s}]
    IN  IF ~s.ok THEN finish(p0, s.call, "error")
        ELSE IF ~s.post THEN finish(p0, s.call, "ok")
        ELSE LET p1 == random(p0)
             IN  IF lessThanRate(p1.state, p1.config.duplicateRate)
                 THEN finish(
                          setTimeout(
                              decide(bump(p1, "duplicated", 1), "duplicate", s.call, 0, <<1>>),
                              duplicateTimer(s.call, duplicateDelay)),
                          s.call, "ok")
                 ELSE finish(decide(p1, "duplicate", s.call, 0, <<0>>), s.call, "ok")

\* What shuffled[i] = shuffled[j] stores for an index j outside the array.
Hole == [id |-> 0, ok |-> FALSE]

\* The Fisher-Yates loop of flushReorderBuffer from index i (0-based) down.
RECURSIVE shuffle(_, _, _)
shuffle(p, arr, i) ==
    IF i <= 0 THEN [p |-> p, arr |-> arr]
    ELSE LET p1 == random(p)
             j == floorTimes(p1.state, i + 1)
             swapped == IF j >= 0 /\ j < Len(arr)
                        THEN [arr EXCEPT ![i + 1] = arr[j + 1], ![j + 1] = arr[i + 1]]
                        ELSE [arr EXCEPT ![i + 1] = Hole]
         IN  shuffle(p1, swapped, i - 1)

\* The first index at which shuffled.some(...) stops: an undefined entry
\* (reading its messageId throws) or an id that differs; 0 if there is none.
firstDifference(shuffled, buffer) ==
    LET D == {idx \in 1..Len(shuffled) :
                 shuffled[idx] = Hole \/ shuffled[idx].id # buffer[idx].id}
    IN  IF D = {} THEN 0 ELSE CHOOSE idx \in D : \A other \in D : idx <= other

idsOf(arr) == [idx \in 1..Len(arr) |-> arr[idx].id]

\* The delivery loop of flushReorderBuffer, up to the return of the flush
\* or its next "await handler(envelope)".
RECURSIVE deliverLoop(_, _, _, _)
deliverLoop(p, call, rest, handler) ==
    IF rest = <<>> THEN finish([p EXCEPT !.messageBuffer = <<>>], call, "ok")
    ELSE LET envelope == Head(rest)
             d == calculateDelay(p)
         IN  IF d.delay > 0
             THEN deliverLoop(
                      setTimeout(
                          decide(bump(d.p, "delayed", 1), "delay", call, envelope.id,
                                 <<d.delay>>),
                          deliverTimer(call, envelope, handler, d.delay)),
                      call, Tail(rest), handler)
             ELSE suspendHandler(
                      invokeHandler(decide(d.p, "delay", call, envelope.id, <<0>>),
                                    envelope, handler, "inline"),
                      call, envelope, Tail(rest), handler, TRUE)

flushReorderBuffer(p, call, handler) ==
    IF Len(p.messageBuffer) = 0 THEN finish(p, call, "ok")
    ELSE LET sh == shuffle(p, p.messageBuffer, Len(p.messageBuffer) - 1)
             first == firstDifference(sh.arr, p.messageBuffer)
         IN  IF first # 0 /\ sh.arr[first] = Hole
             THEN finish(sh.p, call, "error")
             ELSE LET p1 == IF first # 0
                            THEN bump(sh.p, "reordered", Len(sh.arr))
                            ELSE sh.p
                  IN  deliverLoop(decide(p1, "reorder", call, 0, idsOf(sh.arr)),
                                  call, sh.arr, handler)

\* Mutant: a delayed delivery outside the reorder buffer is not counted.
processReceiveMessageDelayUncounted(p, call, envelope, handler) ==
    LET p0 == [bump(p, "received", 1) EXCEPT !.results[call] = "pending"]
    IN  IF ~p0.config.enabled
        THEN suspendHandler(invokeHandler(p0, envelope, handler, "inline"),
                            call, envelope, <<>>, handler, FALSE)
        ELSE IF p0.config.reorderWindow > 0
        THEN LET p1 == [p0 EXCEPT !.messageBuffer = Append(@, envelope)]
             IN  IF Len(p1.messageBuffer) >= p1.config.reorderWindow
                 THEN flushReorderBuffer(p1, call, handler)
                 ELSE finish(p1, call, "ok")
        ELSE LET d == calculateDelay(p0)
             IN  IF d.delay > 0
                 THEN finish(
                          setTimeout(
                              decide(d.p, "delay", call, envelope.id, <<d.delay>>),
                              deliverTimer(call, envelope, handler, d.delay)),
                          call, "ok")
                 ELSE suspendHandler(
                          invokeHandler(decide(d.p, "delay", call, envelope.id, <<0>>),
                                        envelope, handler, "inline"),
                          call, envelope, <<>>, handler, FALSE)

\* Mutant: the handler is invoked without being awaited.
processReceiveMessageNoAwait(p, call, envelope, handler) ==
    LET p0 == [bump(p, "received", 1) EXCEPT !.results[call] = "pending"]
    IN  IF ~p0.config.enabled
        THEN finish(invokeHandler(p0, envelope, handler, "inline"), call, "ok")
        ELSE IF p0.config.reorderWindow > 0
        THEN LET p1 == [p0 EXCEPT !.messageBuffer = Append(@, envelope)]
             IN  IF Len(p1.messageBuffer) >= p1.config.reorderWindow
                 THEN flushReorderBuffer(p1, call, handler)
                 ELSE finish(p1, call, "ok")
        ELSE LET d == calculateDelay(p0)
             IN  IF d.delay > 0
                 THEN finish(
                          setTimeout(
                              decide(bump(d.p, "delayed", 1), "delay", call, envelope.id,
                                     <<d.delay>>),
                              deliverTimer(call, envelope, handler, d.delay)),
                          call, "ok")
                 ELSE finish(
                          invokeHandler(decide(d.p, "delay", call, envelope.id, <<0>>),
                                        envelope, handler, "inline"),
                          call, "ok")

\* Mutant: a reorderWindow of 0 buffers too.
processReceiveMessageBuffersAtZero(p, call, envelope, handler) ==
    LET p0 == [bump(p, "received", 1) EXCEPT !.results[call] = "pending"]
    IN  IF ~p0.config.enabled
        THEN suspendHandler(invokeHandler(p0, envelope, handler, "inline"),
                            call, envelope, <<>>, handler, FALSE)
        ELSE LET p1 == [p0 EXCEPT !.messageBuffer = Append(@, envelope)]
             IN  IF Len(p1.messageBuffer) >= p1.config.reorderWindow
                    /\ p1.config.reorderWindow > 0
                 THEN flushReorderBuffer(p1, call, handler)
                 ELSE finish(p1, call, "ok")

\* processReceiveMessage up to its return or its first "await handler()".
processReceiveMessage(p, call, envelope, handler) ==
    LET p0 == [bump(p, "received", 1) EXCEPT !.results[call] = "pending"]
    IN  IF ~p0.config.enabled
        THEN suspendHandler(invokeHandler(p0, envelope, handler, "inline"),
                            call, envelope, <<>>, handler, FALSE)
        ELSE IF p0.config.reorderWindow > 0
        THEN LET p1 == [p0 EXCEPT !.messageBuffer = Append(@, envelope)]
             IN  IF Len(p1.messageBuffer) >= p1.config.reorderWindow
                 THEN flushReorderBuffer(p1, call, handler)
                 ELSE finish(p1, call, "ok")
        ELSE LET d == calculateDelay(p0)
             IN  IF d.delay > 0
                 THEN finish(
                          setTimeout(
                              decide(bump(d.p, "delayed", 1), "delay", call, envelope.id,
                                     <<d.delay>>),
                              deliverTimer(call, envelope, handler, d.delay)),
                          call, "ok")
                 ELSE suspendHandler(
                          invokeHandler(decide(d.p, "delay", call, envelope.id, <<0>>),
                                        envelope, handler, "inline"),
                          call, envelope, <<>>, handler, FALSE)

\* processReceiveMessage from the settling of the awaited handler on.
resumeHandler(p, f) ==
    LET p0 == [p EXCEPT !.flushes = @ \ {f}]
    IN  IF ~f.ok THEN finish(p0, f.call, "error")
        ELSE IF f.inFlush THEN deliverLoop(p0, f.call, f.rest, f.handler)
        ELSE finish(p0, f.call, "ok")

\* A setTimeout callback runs.
\* An error thrown, or a promise rejected, with nothing to catch it.
uncaught(p) == [p EXCEPT !.unhandled = @ + 1]

\* Mutant: the duplicate's callback has no try/catch.
fireTimerNoCatch(p, t, ok) ==
    LET p0 == [p EXCEPT !.timers = @ \ {t}]
    IN  IF t.kind = "duplicate"
        THEN IF ok THEN invokeSendFn(p0, t.call, TRUE)
             ELSE uncaught(invokeSendFn(p0, t.call, TRUE))
        ELSE IF t.envelope.ok THEN invokeHandler(p0, t.envelope, t.handler, "timer")
        ELSE uncaught(invokeHandler(p0, t.envelope, t.handler, "timer"))

\* A setTimeout callback runs.  The duplicate's callback awaits sendFn()
\* inside try/catch (ok: whether that invocation succeeds); the delivery
\* callback is "() => handler(envelope)" and nothing catches what the
\* handler throws or rejects with.
fireTimer(p, t, ok) ==
    LET p0 == [p EXCEPT !.timers = @ \ {t}]
    IN  IF t.kind = "duplicate" THEN invokeSendFn(p0, t.call, TRUE)
        ELSE IF t.envelope.ok THEN invokeHandler(p0, t.envelope, t.handler, "timer")
        ELSE uncaught(invokeHandler(p0, t.envelope, t.handler, "timer"))

\* Mutant: an update never replaces the generator.
updateConfigNeverReseeds(p, newConfig) ==
    [p EXCEPT !.config = merge(@, newConfig)]

\* Mutant: every update reseeds the generator.
updateConfigAlwaysReseeds(p, newConfig) ==
    LET p0 == [p EXCEPT !.config = merge(@, newConfig)]
    IN  [p0 EXCEPT !.state = createSeededRandom(p0.config.seed)]

updateConfig(p, newConfig) ==
    LET p0 == [p EXCEPT !.config = merge(@, newConfig)]
    IN  IF "seed" \in DOMAIN newConfig
        THEN [p0 EXCEPT !.state = createSeededRandom(newConfig.seed)]
        ELSE p0

\* Mutant: the counters of the receive side are left as they are.
resetStatsSendSideOnly(p) ==
    [p EXCEPT !.stats.sent = 0, !.stats.dropped = 0, !.stats.duplicated = 0]

resetStats(p) == [p EXCEPT !.stats = ZeroStats]

(***************************************************************************)
(* getStats() and getConfig().  An object a caller holds is a handle: live *)
(* tells whether it is the very object the proxy keeps in this.stats or    *)
(* this.config (value is then not used), or an object of its own with the  *)
(* fields in value.  All fields are numbers or booleans, so a spread       *)
(* "{ ...obj }" shares nothing with obj.                                   *)
(***************************************************************************)
\* Mutant: getStats returns this.stats itself.
getStatsLive(p) == [of |-> "stats", live |-> TRUE, value |-> ZeroStats]

\* getStats(): return { ...this.stats }
getStats(p) == [of |-> "stats", live |-> FALSE, value |-> p.stats]

\* getConfig(): return { ...this.config }
getConfig(p) == [of |-> "config", live |-> FALSE, value |-> p.config]

\* What a caller reads in an object it was handed.
contents(p, h) ==
    IF ~h.live THEN h.value
    ELSE IF h.of = "stats" THEN p.stats ELSE p.config

\* The caller's assignment "snapshot.field = value" on the k-th object
\* handed out.
assign(p, k, field, value) ==
    LET h == p.snapshots[k]
    IN  IF ~h.live THEN [p EXCEPT !.snapshots[k].value[field] = value]
        ELSE IF h.of = "stats" THEN [p EXCEPT !.stats[field] = value]
        ELSE [p EXCEPT !.config[field] = value]

(***************************************************************************)
(* Actions on the ChaosProxy instances.  A call is made on every instance  *)
(* (all of them are driven by one call sequence); what the runtime         *)
(* schedules (the settling of an awaited promise, the firing of a timer)   *)
(* happens in each instance on its own.                                    *)
(***************************************************************************)
Handlers == {"onTelemetry"}
DuplicateDelays == {50, 249}

otherVars == <<msgVars, fnVars, consVars, isConnected>>

Step(op, i, call, ok, newConfig) ==
    [op |-> op, i |-> i, call |-> call, ok |-> ok, newConfig |-> newConfig]

ProcessSendMessage(ok) ==
    /\ nCalls < MaxCalls
    /\ nCalls' = nCalls + 1
    /\ proxy' = [i \in DOMAIN proxy |-> processSendMessage(proxy[i], nCalls + 1, ok)]
    /\ lastStep' = Step("processSendMessage", 0, nCalls + 1, ok, <<>>)
    /\ UNCHANGED otherVars

ProcessReceiveMessage(ok, handler) ==
    /\ nCalls < MaxCalls
    /\ nCalls' = nCalls + 1
    /\ proxy' = [i \in DOMAIN proxy |->
           processReceiveMessage(proxy[i], nCalls + 1,
                                 [id |-> nCalls + 1, ok |-> ok], handler)]
    /\ lastStep' = Step("processReceiveMessage", 0, nCalls + 1, ok, <<>>)
    /\ UNCHANGED otherVars

UpdateConfig(newConfig) ==
    /\ nCalls < MaxCalls
    /\ nCalls' = nCalls + 1
    /\ proxy' = [i \in DOMAIN proxy |-> updateConfig(proxy[i], newConfig)]
    /\ lastStep' = Step("updateConfig", 0, nCalls + 1, TRUE, newConfig)
    /\ UNCHANGED otherVars

ResetStats ==
    /\ nCalls < MaxCalls
    /\ nCalls' = nCalls + 1
    /\ proxy' = [i \in DOMAIN proxy |-> resetStats(proxy[i])]
    /\ lastStep' = Step("resetStats", 0, nCalls + 1, TRUE, <<>>)
    /\ UNCHANGED otherVars

\* The promise of a sendFn invocation settles in instance i.
SendFnSettles(i, s, duplicateDelay) ==
    /\ s \in proxy[i].sends
    /\ proxy' = [proxy EXCEPT ![i] = resumeSend(@, s, duplicateDelay)]
    /\ lastStep' = Step("sendFnSettles", i, s.call, s.ok, <<>>)
    /\ UNCHANGED <<nCalls, otherVars>>

\* The promise of an awaited handler settles in instance i.
HandlerFinishes(i, f) ==
    /\ f \in proxy[i].flushes
    /\ proxy' = [proxy EXCEPT ![i] = resumeHandler(@, f)]
    /\ lastStep' = Step("handlerFinishes", i, f.call, f.ok, <<>>)
    /\ UNCHANGED <<nCalls, otherVars>>

\* A timer of instance i fires; ok: whether the sendFn invocation of a
\* duplicate's callback succeeds.
TimerFires(i, t, ok) ==
    /\ t \in proxy[i].timers
    /\ t.kind = "deliver" => ok = t.envelope.ok
    /\ proxy' = [proxy EXCEPT ![i] = fireTimer(@, t, ok)]
    /\ lastStep' = Step(t.kind, i, t.call, ok, <<>>)
    /\ UNCHANGED <<nCalls, otherVars>>

(***************************************************************************)
(* Specification SpecDet: two instances built with the same config and     *)
(* driven by the same calls.                                               *)
(***************************************************************************)
DetConfigs ==
    {[seed |-> 12345],
     [reorderWindow |-> 0],
     [reorderWindow |-> 2],
     [reorderWindow |-> 2, duplicateRate |-> 50, seed |-> 7],
     [enabled |-> FALSE]}

DetUpdates == {[seed |-> 7], [reorderWindow |-> 0], [enabled |-> FALSE]}

InitDet ==
    /\ InitMsgVars
    /\ InitFn
    /\ InitConsVars
    /\ nCalls = 0
    /\ lastStep = NoStep
    /\ isConnected = Connected
    /\ \E config \in DetConfigs : proxy = [i \in {1, 2} |-> ChaosProxy(config)]

NextDet ==
    \/ \E ok \in BOOLEAN : ProcessSendMessage(ok)
    \/ \E ok \in BOOLEAN, handler \in Handlers : ProcessReceiveMessage(ok, handler)
    \/ \E newConfig \in DetUpdates : UpdateConfig(newConfig)
    \/ ResetStats
    \/ \E i \in DOMAIN proxy : \E s \in proxy[i].sends, d \in DuplicateDelays :
           SendFnSettles(i, s, d)
    \/ \E i \in DOMAIN proxy : \E f \in proxy[i].flushes : HandlerFinishes(i, f)
    \/ \E i \in DOMAIN proxy : \E t \in proxy[i].timers, ok \in BOOLEAN :
           TimerFires(i, t, ok)

SpecDet == InitDet /\ [][NextDet]_vars

\* No call of an instance is suspended.
Quiescent(p) == p.sends = {} /\ p.flushes = {}

\* C1: two instances built with the same config and driven by the same
\* calls with the same sendFn outcomes take the same decision wherever both
\* have taken it (the drop and the duplicate decision of a send, the
\* permutation of a flush, the delay of an envelope), and have equal stats
\* once no call is suspended in either.
C1_Determinism ==
    /\ \A d1 \in proxy[1].decisions : \A d2 \in proxy[2].decisions :
           (d1.kind = d2.kind /\ d1.subject = d2.subject) => d1.value = d2.value
    /\ (Quiescent(proxy[1]) /\ Quiescent(proxy[2])) =>
           proxy[1].stats = proxy[2].stats

(***************************************************************************)
(* Specification SpecChaos: one ChaosProxy under any calls.                *)
(***************************************************************************)
ChaosConfigs ==
    {[seed |-> 12345],
     [reorderWindow |-> 2],
     [reorderWindow |-> 2, maxDelayMs |-> 0],
     [reorderWindow |-> 0, duplicateRate |-> 100],
     [dropRate |-> 100],
     [dropRate |-> 0, reorderWindow |-> 0, seed |-> -7],
     [dropRate |-> 0, reorderWindow |-> 2, seed |-> -7],
     [enabled |-> FALSE]}

ChaosUpdates ==
    {[seed |-> 7],
     [seed |-> 12345],
     [reorderWindow |-> 0],
     [enabled |-> FALSE],
     [dropRate |-> 100],
     [duplicateRate |-> 100, maxDelayMs |-> 0]}

InitChaos ==
    /\ InitMsgVars
    /\ InitFn
    /\ InitConsVars
    /\ nCalls = 0
    /\ lastStep = NoStep
    /\ isConnected = Connected
    /\ \E config \in ChaosConfigs : proxy = [i \in {1} |-> ChaosProxy(config)]

NextChaos ==
    \/ \E ok \in BOOLEAN : ProcessSendMessage(ok)
    \/ \E ok \in BOOLEAN, handler \in Handlers : ProcessReceiveMessage(ok, handler)
    \/ \E newConfig \in ChaosUpdates : UpdateConfig(newConfig)
    \/ ResetStats
    \/ \E i \in DOMAIN proxy : \E s \in proxy[i].sends, d \in DuplicateDelays :
           SendFnSettles(i, s, d)
    \/ \E i \in DOMAIN proxy : \E f \in proxy[i].flushes : HandlerFinishes(i, f)
    \/ \E i \in DOMAIN proxy : \E t \in proxy[i].timers, ok \in BOOLEAN :
           TimerFires(i, t, ok)

SpecChaos == InitChaos /\ [][NextChaos]_vars

(***************************************************************************)
(* Claims about one ChaosProxy (specification SpecChaos).                  *)
(***************************************************************************)

\* C11: a processSendMessage call made while chaos is enabled with dropRate
\* 1.0 is dropped: it returns null, counts one in sent and one in dropped,
\* invokes no sendFn, suspends nothing and schedules nothing; and no sendFn
\* invocation, original or duplicate, ever belongs to a call that returned
\* null.
C11_DropAll ==
    [][/\ (/\ lastStep'.op = "processSendMessage"
           /\ proxy[1].config.enabled
           /\ proxy[1].config.dropRate = RateDen) =>
              /\ proxy'[1].results[lastStep'.call] = "null"
              /\ proxy'[1].stats =
                     [proxy[1].stats EXCEPT !.sent = @ + 1, !.dropped = @ + 1]
              /\ proxy'[1].sendFnCalls = proxy[1].sendFnCalls
              /\ proxy'[1].sends = proxy[1].sends
              /\ proxy'[1].timers = proxy[1].timers
              /\ proxy'[1].delivered = proxy[1].delivered
       /\ \A k \in 1..Len(proxy'[1].sendFnCalls) :
              proxy'[1].results[proxy'[1].sendFnCalls[k].call] # "null"]_vars

\* C11 witness: with dropRate 1.0, a second send in a row was dropped
\* (sent = dropped = 2 and no sendFn invocation).
C11_Witness ==
    /\ lastStep.op = "processSendMessage"
    /\ proxy[1].config.enabled
    /\ proxy[1].config.dropRate = RateDen
    /\ proxy[1].results[lastStep.call] = "null"
    /\ proxy[1].stats.sent = 2
    /\ proxy[1].stats.dropped = 2
    /\ proxy[1].sendFnCalls = <<>>

\* C12: a processSendMessage call made while dropRate is 0.0 is not
\* dropped, whatever the seed: it does not return null, the dropped counter
\* keeps its value and sendFn is invoked once.
C12_NeverDropAtZero ==
    [][(lastStep'.op = "processSendMessage" /\ proxy[1].config.dropRate = 0) =>
           /\ proxy'[1].results[lastStep'.call] # "null"
           /\ proxy'[1].stats.dropped = proxy[1].stats.dropped
           /\ Len(proxy'[1].sendFnCalls) = Len(proxy[1].sendFnCalls) + 1]_vars

\* The ids of the envelopes handed to a handler, in the order of the
\* invocations.
deliveredIds(p) == [k \in 1..Len(p.delivered) |-> p.delivered[k].id]

\* C13: when a proxy with chaos enabled and reorderWindow W > 0 was fed
\* exactly W envelopes (its only calls) and nothing is suspended or scheduled
\* any more, the handler was invoked exactly W times, once for each
\* envelope, and the buffer is empty.
C13_ReorderConservation ==
    LET p == proxy[1]
        W == p.config.reorderWindow
    IN  (/\ p.config.enabled
         /\ W > 0
         /\ nCalls = W
         /\ p.stats.received = W
         /\ p.flushes = {}
         /\ p.timers = {}) =>
            /\ Len(p.delivered) = W
            /\ {deliveredIds(p)[k] : k \in 1..W} = 1..W
            /\ p.messageBuffer = <<>>

\* C16: processSendMessage returns the result of the original send in the
\* step that schedules the duplicate, while the duplicate's timer is still
\* pending; and when that timer fires, whether its sendFn invocation
\* succeeds or fails, no result of a call and no counter changes and nothing
\* is left uncaught.
C16_DetachedDuplicate ==
    [][/\ (lastStep'.op = "sendFnSettles"
             /\ proxy'[1].timers # proxy[1].timers) =>
              /\ proxy'[1].results[lastStep'.call] = "ok"
              /\ \E t \in proxy'[1].timers :
                     t.kind = "duplicate" /\ t.call = lastStep'.call
       /\ lastStep'.op = "duplicate" =>
              /\ proxy'[1].results = proxy[1].results
              /\ proxy'[1].stats = proxy[1].stats
              /\ proxy'[1].unhandled = proxy[1].unhandled
              /\ Len(proxy'[1].sendFnCalls) = Len(proxy[1].sendFnCalls) + 1]_vars

\* C16 witness: the sendFn invocation of a duplicate has just failed; the
\* call had returned the original's result.
C16_Witness ==
    /\ lastStep.op = "duplicate"
    /\ ~lastStep.ok
    /\ proxy[1].results[lastStep.call] = "ok"
    /\ proxy[1].stats.duplicated > 0

\* C17: when a delayed delivery's timer fires and the handler throws or
\* rejects, nothing is left uncaught.
C17_DelayedFailuresContained ==
    [][lastStep'.op = "deliver" =>
           proxy'[1].unhandled = proxy[1].unhandled]_vars

\* C18: when the original sendFn invocation fails, the call ends with that
\* error, no counter changes after the sent++ of the call (which is the only
\* counter a call that reaches sendFn changes), no draw is made and no
\* duplicate is scheduled for it, then or later.
C18_SendFailurePropagates ==
    [][/\ (lastStep'.op = "sendFnSettles" /\ ~lastStep'.ok) =>
              /\ proxy'[1].results[lastStep'.call] = "error"
              /\ proxy'[1].stats = proxy[1].stats
              /\ proxy'[1].timers = proxy[1].timers
              /\ proxy'[1].state = proxy[1].state
              /\ proxy'[1].sendFnCalls = proxy[1].sendFnCalls
       /\ (lastStep'.op = "processSendMessage"
             /\ proxy'[1].sendFnCalls # proxy[1].sendFnCalls) =>
              proxy'[1].stats = [proxy[1].stats EXCEPT !.sent = @ + 1]
       /\ \A t \in proxy'[1].timers :
              t.kind = "duplicate" => proxy'[1].results[t.call] = "ok"]_vars

\* C18 witness: a sendFn invocation has just failed in a proxy that
\* duplicates every successful send.
C18_Witness ==
    /\ lastStep.op = "sendFnSettles"
    /\ ~lastStep.ok
    /\ proxy[1].results[lastStep.call] = "error"
    /\ proxy[1].config.enabled
    /\ proxy[1].config.duplicateRate = RateDen

\* C20: updateConfig(partial) with no seed in partial leaves the generator
\* state as it was (so the next draw is the one that was due), gives the
\* fields of partial their new values and leaves every other field alone.
C20_UpdateKeepsGenerator ==
    [][(lastStep'.op = "updateConfig" /\ "seed" \notin DOMAIN lastStep'.newConfig) =>
           /\ proxy'[1].state = proxy[1].state
           /\ random(proxy'[1]).state = random(proxy[1]).state
           /\ \A f \in DOMAIN proxy[1].config :
                  proxy'[1].config[f] =
                      IF f \in DOMAIN lastStep'.newConfig
                      THEN lastStep'.newConfig[f]
                      ELSE proxy[1].config[f]]_vars

\* C20 witness: an update without a seed was applied after draws had been
\* consumed.
C20_Witness ==
    /\ lastStep.op = "updateConfig"
    /\ "seed" \notin DOMAIN lastStep.newConfig
    /\ proxy[1].state # proxy[1].config.seed
    /\ proxy[1].decisions # {}

\* The next n draws of a proxy (their numerators), in order.
RECURSIVE draws(_, _)
draws(p, n) ==
    IF n = 0 THEN <<>>
    ELSE LET p1 == random(p) IN <<p1.state>> \o draws(p1, n - 1)

\* C21: after updateConfig(partial) with a seed s in partial, the draws that
\* follow are those of a proxy just constructed with seed s, whatever was
\* drawn before and also when s is the seed the proxy already had.
C21_UpdateReseeds ==
    [][(lastStep'.op = "updateConfig" /\ "seed" \in DOMAIN lastStep'.newConfig) =>
           /\ proxy'[1].config.seed = lastStep'.newConfig.seed
           /\ draws(proxy'[1], MaxCalls) =
                  draws(ChaosProxy([seed |-> lastStep'.newConfig.seed]), MaxCalls)]_vars

\* C21 witness: an update carrying the default seed was applied after draws
\* had been consumed.
C21_Witness ==
    /\ lastStep.op = "updateConfig"
    /\ "seed" \in DOMAIN lastStep.newConfig
    /\ lastStep.newConfig.seed = DefaultConfig.seed
    /\ proxy[1].decisions # {}
    /\ proxy[1].stats.sent + proxy[1].stats.received > 0

\* C22: a step that is not resetStats decreases none of the six counters,
\* and the resetStats step leaves all six at zero.
C22_MonotonicAtomicReset ==
    [][/\ lastStep'.op # "resetStats" =>
              \A c \in DOMAIN ZeroStats : proxy'[1].stats[c] >= proxy[1].stats[c]
       /\ lastStep'.op = "resetStats" => proxy'[1].stats = ZeroStats]_vars

\* C22 witness: resetStats ran after a send had reached sendFn and a receive
\* had been counted, with an envelope still in the reorder buffer.
C22_Witness ==
    /\ lastStep.op = "resetStats"
    /\ proxy[1].stats = ZeroStats
    /\ proxy[1].sendFnCalls # <<>>
    /\ proxy[1].results[2] # "none"
    /\ proxy[1].messageBuffer # <<>>

\* C24: a processSendMessage call made while enabled is false adds one to
\* sent and changes no other counter, makes no draw, invokes sendFn once and
\* schedules nothing; when that sendFn invocation settles, the call ends with
\* its outcome (the envelope, or the error) and again no counter, no draw and
\* no timer changes; and no duplicate invocation of sendFn ever belongs to
\* such a call.
C24_DisabledSendPassThrough ==
    [][LET p == proxy[1]
           q == proxy'[1]
           call == lastStep'.call
       IN  /\ (lastStep'.op = "processSendMessage" /\ ~p.config.enabled) =>
                  /\ q.stats = [p.stats EXCEPT !.sent = @ + 1]
                  /\ q.state = p.state
                  /\ q.sendFnCalls = Append(p.sendFnCalls, [call |-> call, dup |-> FALSE])
                  /\ q.timers = p.timers
                  /\ q.decisions = p.decisions
                  /\ \E s \in q.sends : s.call = call /\ ~s.post
           /\ (lastStep'.op = "sendFnSettles"
                 /\ \E s \in p.sends : s.call = call /\ ~s.post) =>
                  /\ q.results[call] = IF lastStep'.ok THEN "ok" ELSE "error"
                  /\ q.stats = p.stats
                  /\ q.state = p.state
                  /\ q.timers = p.timers
                  /\ q.sendFnCalls = p.sendFnCalls
           /\ \A k \in 1..Len(q.sendFnCalls) :
                  q.sendFnCalls[k].dup =>
                      \E d \in q.decisions :
                          d.kind = "drop" /\ d.subject[1] = q.sendFnCalls[k].call]_vars

\* C24 witness: a disabled proxy whose dropRate is 1.0 has passed a send
\* through without a draw.
C24_Witness ==
    /\ lastStep.op = "sendFnSettles"
    /\ lastStep.ok
    /\ ~proxy[1].config.enabled
    /\ proxy[1].config.dropRate = RateDen
    /\ proxy[1].results[lastStep.call] = "ok"
    /\ proxy[1].state = proxy[1].config.seed
    /\ proxy[1].stats = [ZeroStats EXCEPT !.sent = 1]

\* The call takes the immediate path: chaos is disabled, or it is enabled
\* with reorderWindow 0 and the delay computed for the envelope is 0.
immediatePath(p) ==
    \/ ~p.config.enabled
    \/ p.config.reorderWindow = 0 /\ calculateDelay(p).delay = 0

\* C25: a processReceiveMessage call on the immediate path invokes the
\* handler on its envelope and has not returned while that invocation is
\* awaited; when the invocation settles the call returns if the handler
\* succeeded and fails if the handler failed; and no call has an outcome
\* while a handler invocation it awaits is outstanding.
C25_ImmediateBackpressure ==
    [][LET p == proxy[1]
           q == proxy'[1]
           call == lastStep'.call
       IN  /\ (lastStep'.op = "processReceiveMessage" /\ immediatePath(p)) =>
                  /\ q.results[call] = "pending"
                  /\ Len(q.delivered) = Len(p.delivered) + 1
                  /\ q.delivered[Len(q.delivered)].id = call
                  /\ q.delivered[Len(q.delivered)].via = "inline"
                  /\ \E f \in q.flushes : f.call = call /\ ~f.inFlush
                  /\ q.timers = p.timers
           /\ (lastStep'.op = "handlerFinishes"
                 /\ \E f \in p.flushes : f.call = call /\ ~f.inFlush) =>
                  q.results[call] = IF lastStep'.ok THEN "ok" ELSE "error"
           /\ \A f \in q.flushes : q.results[f.call] = "pending"]_vars

\* C25 witness: with chaos enabled, reorderWindow 0 and a positive
\* maxDelayMs, the handler awaited inline has just failed and the call
\* failed with it.
C25_Witness ==
    /\ lastStep.op = "handlerFinishes"
    /\ ~lastStep.ok
    /\ proxy[1].config.enabled
    /\ proxy[1].config.reorderWindow = 0
    /\ proxy[1].config.maxDelayMs > 0
    /\ proxy[1].results[lastStep.call] = "error"
    /\ proxy[1].stats.delayed = 0

\* The ids of the envelopes a handler was invoked on or a delivery timer
\* holds.
dispatchedIds(p) ==
    {p.delivered[k].id : k \in 1..Len(p.delivered)}
        \cup {t.envelope.id : t \in {u \in p.timers : u.kind = "deliver"}}

\* C28: with chaos enabled and reorderWindow W > 0, (a) a receive that
\* leaves fewer than W envelopes in the buffer invokes no handler and
\* schedules nothing; (b) when a call that flushed ends, every envelope of
\* the buffer was handed to the handler or to a delivery timer and the
\* buffer is empty; (c) when a processReceiveMessage call returns, the
\* buffer holds fewer envelopes than the reorderWindow of that moment.
C28_ReorderBuffering ==
    [][LET p == proxy[1]
           q == proxy'[1]
           call == lastStep'.call
           W == p.config.reorderWindow
           ends == p.results[call] \in {"none", "pending"}
                       /\ q.results[call] \in {"ok", "error"}
           buffering == lastStep'.op = "processReceiveMessage"
                            /\ p.config.enabled /\ W > 0
           resumed == lastStep'.op = "handlerFinishes"
                          /\ \E f \in p.flushes : f.call = call /\ f.inFlush
       IN  /\ (buffering /\ Len(p.messageBuffer) + 1 < W) =>
                  /\ q.delivered = p.delivered
                  /\ q.timers = p.timers
                  /\ Len(q.messageBuffer) = Len(p.messageBuffer) + 1
           /\ (ends /\ buffering /\ Len(p.messageBuffer) + 1 >= W) =>
                  /\ q.messageBuffer = <<>>
                  /\ {p.messageBuffer[k].id : k \in 1..Len(p.messageBuffer)}
                         \cup {call} \subseteq dispatchedIds(q)
           /\ (ends /\ resumed) =>
                  /\ q.messageBuffer = <<>>
                  /\ {p.messageBuffer[k].id : k \in 1..Len(p.messageBuffer)}
                         \subseteq dispatchedIds(q)
           /\ (/\ lastStep'.op \in {"processReceiveMessage", "handlerFinishes"}
                /\ ends
                /\ q.results[call] = "ok"
                /\ q.config.enabled
                /\ q.config.reorderWindow > 0) =>
                  Len(q.messageBuffer) < q.config.reorderWindow]_vars

\* C29: a receive that triggers a flush adds the size of the flushed batch to
\* reordered when the shuffled batch differs from the batch in arrival
\* order at some position, and nothing otherwise (so nothing for a batch of
\* one); no other step but resetStats changes reordered.
C29_ReorderedAllOrNothing ==
    [][LET p == proxy[1]
           q == proxy'[1]
           batch == Append(p.messageBuffer,
                           [id |-> lastStep'.call, ok |-> lastStep'.ok])
           shuffled == shuffle(p, batch, Len(batch) - 1).arr
           flushing == /\ lastStep'.op = "processReceiveMessage"
                       /\ p.config.enabled
                       /\ p.config.reorderWindow > 0
                       /\ Len(batch) >= p.config.reorderWindow
       IN  /\ flushing =>
                  q.stats.reordered =
                      p.stats.reordered + (IF shuffled # batch THEN Len(batch) ELSE 0)
           /\ (~flushing /\ lastStep'.op # "resetStats") =>
                  q.stats.reordered = p.stats.reordered]_vars

\* C30: in a step of the receive path, every envelope a delay was computed
\* for is dispatched in exactly one way: with a delay > 0 it gets one
\* delivery timer (of that delay, at least 1 ms), delayed counts it and no
\* handler is invoked in the step; with a delay of 0 the handler is invoked
\* inline and the call is suspended on it, and delayed does not count it.
\* delayed grows by the number of delivery timers scheduled and changes in
\* no other step but resetStats.
C30_DelayAccounting ==
    [][LET p == proxy[1]
           q == proxy'[1]
           dispatched == {d \in q.decisions \ p.decisions : d.kind = "delay"}
           positive == {d \in dispatched : d.value[1] > 0}
           scheduled == {t \in q.timers \ p.timers : t.kind = "deliver"}
           invoked == {k \in 1..Len(q.delivered) : k > Len(p.delivered)}
           receiving == lastStep'.op \in {"processReceiveMessage", "handlerFinishes"}
       IN  /\ receiving =>
                  /\ q.stats.delayed = p.stats.delayed + Cardinality(scheduled)
                  /\ Cardinality(scheduled) = Cardinality(positive)
                  /\ \A d \in positive :
                         /\ \E t \in scheduled :
                                /\ t.call = d.subject[1]
                                /\ t.envelope.id = d.subject[2]
                                /\ t.delay = Max(1, d.value[1])
                         /\ \A k \in invoked : q.delivered[k].id # d.subject[2]
                  /\ \A d \in dispatched \ positive :
                         /\ \E k \in invoked :
                                /\ q.delivered[k].id = d.subject[2]
                                /\ q.delivered[k].via = "inline"
                         /\ \E f \in q.flushes : f.call = d.subject[1]
                         /\ q.results[d.subject[1]] = "pending"
                         /\ \A t \in scheduled : t.envelope.id # d.subject[2]
                  /\ (lastStep'.op = "handlerFinishes" \/ p.config.enabled) =>
                         Cardinality(invoked) = Cardinality(dispatched \ positive)
           /\ (~receiving /\ lastStep'.op # "resetStats") =>
                  q.stats.delayed = p.stats.delayed]_vars

\* C30 witness: with reorderWindow 0, one envelope was handed to the handler
\* inline and the next one has just been given a delivery timer.
C30_Witness ==
    /\ lastStep.op = "processReceiveMessage"
    /\ proxy[1].config.enabled
    /\ proxy[1].config.reorderWindow = 0
    /\ proxy[1].stats.delayed = 1
    /\ Len(proxy[1].delivered) = 1
    /\ \E t \in proxy[1].timers : t.kind = "deliver" /\ t.call = lastStep.call

\* C31: the delay computed for the envelope of a receive that bypasses the
\* reorder buffer: 0 without a draw when maxDelayMs <= 0; otherwise one draw
\* d, and when d < 0.3 a second draw d2 and the delay floor(d2 * maxDelayMs),
\* else 0 after the single draw; and for maxDelayMs > 0 the delay is an
\* integer in 0..maxDelayMs - 1.
C31_CalculateDelay ==
    [][LET p == proxy[1]
           q == proxy'[1]
           m == p.config.maxDelayMs
           d == nextState(p.state)
           d2 == nextState(d)
           delays == {x.value[1] : x \in
                         {y \in q.decisions \ p.decisions : y.kind = "delay"}}
       IN  (/\ lastStep'.op = "processReceiveMessage"
            /\ p.config.enabled
            /\ p.config.reorderWindow = 0) =>
               /\ m <= 0 => delays = {0} /\ q.state = p.state
               /\ (m > 0 /\ d * 10 < 3 * LcgM) =>
                      delays = {(d2 * m) \div LcgM} /\ q.state = d2
               /\ (m > 0 /\ ~(d * 10 < 3 * LcgM)) =>
                      delays = {0} /\ q.state = d
               /\ m > 0 => delays \subseteq 0..(m - 1)]_vars

\* C32: whatever the seed, a step that draws leaves the generator in a
\* state in 0..233279 (so the draw is in [0, 1)), and in a flush each draw
\* of the shuffle is in that range and gives, for the loop index i, an index
\* j with 0 <= j <= i.
C32_GeneratorRange ==
    [][LET p == proxy[1]
           q == proxy'[1]
           batch == Append(p.messageBuffer,
                           [id |-> lastStep'.call, ok |-> lastStep'.ok])
           n == Len(batch) - 1
           ds == draws(p, n)
           flushing == /\ lastStep'.op = "processReceiveMessage"
                       /\ p.config.enabled
                       /\ p.config.reorderWindow > 0
                       /\ Len(batch) >= p.config.reorderWindow
       IN  /\ (lastStep'.op # "updateConfig" /\ q.state # p.state) =>
                  q.state \in 0..(LcgM - 1)
           /\ flushing =>
                  \A k \in 1..n :
                      /\ ds[k] \in 0..(LcgM - 1)
                      /\ (ds[k] * (Len(batch) - k + 1)) \div LcgM
                             \in 0..(Len(batch) - k)]_vars

\* C36: in every reachable state dropped + duplicated <= sent,
\* delayed <= received and reordered <= received.
C36_CounterConsistency ==
    LET st == proxy[1].stats
    IN  /\ st.dropped + st.duplicated <= st.sent
        /\ st.delayed <= st.received
        /\ st.reordered <= st.received

(***************************************************************************)
(* Specification LiveChaos: SpecChaos with the scheduling of the runtime:  *)
(* a pending timer eventually fires and an awaited promise eventually      *)
(* settles.  Nothing obliges the callers to make another call.             *)
(***************************************************************************)
LiveChaos ==
    /\ SpecChaos
    /\ WF_vars(\E t \in proxy[1].timers, ok \in BOOLEAN : TimerFires(1, t, ok))
    /\ WF_vars(\E f \in proxy[1].flushes : HandlerFinishes(1, f))
    /\ WF_vars(\E s \in proxy[1].sends, d \in DuplicateDelays : SendFnSettles(1, s, d))

\* C35: an envelope that processReceiveMessage has put in the reorder buffer
\* is eventually handed to a handler.
C35_EventualDelivery ==
    \A c \in 1..MaxCalls :
        (\E k \in 1..Len(proxy[1].messageBuffer) : proxy[1].messageBuffer[k].id = c)
            ~> (\E k \in 1..Len(proxy[1].delivered) : proxy[1].delivered[k].id = c)

(***************************************************************************)
(* Specification SpecShutdown: a producer and a consumer wrapped by one    *)
(* ChaosProxy, each of which may be disconnected while timers are pending. *)
(* A disconnected producer makes every sendFn invocation fail              *)
(* (KafkaProducer.sendMessage throws "not connected"); a disconnected      *)
(* consumer is handed no more records.                                     *)
(***************************************************************************)
ShutdownConfigs ==
    {[reorderWindow |-> 2],
     [duplicateRate |-> 100, reorderWindow |-> 2]}

WrappedNodes == {"producer", "consumer"}

\* KafkaProducer.disconnect / KafkaConsumer.disconnect
disconnectNode(conn, node) == [conn EXCEPT ![node] = FALSE]

\* Mutant: disconnecting a wrapper clears the proxy's pending timers.
disconnectCancelsTimers(p) == [p EXCEPT !.timers = {}]

\* What ChaoticProducer.disconnect and ChaoticConsumer.disconnect do to the
\* proxy: they forward to the wrapped node and never touch this.chaos.
disconnect(p) == p

InitShutdown ==
    /\ InitMsgVars
    /\ InitFn
    /\ InitConsVars
    /\ nCalls = 0
    /\ lastStep = NoStep
    /\ isConnected = Connected
    /\ \E config \in ShutdownConfigs : proxy = [i \in {1} |-> ChaosProxy(config)]

\* chaoticProducer.disconnect() / chaoticConsumer.disconnect()
Disconnect(node) ==
    /\ isConnected[node]
    /\ isConnected' = disconnectNode(isConnected, node)
    /\ proxy' = [i \in DOMAIN proxy |-> disconnect(proxy[i])]
    /\ lastStep' = Step("disconnect", 0, 0, TRUE, <<>>)
    /\ UNCHANGED <<nCalls, msgVars, fnVars, consVars>>

\* chaoticProducer.sendMessage(...): sendFn can succeed only while the
\* producer is connected.
ShutdownSend(ok) ==
    /\ ok => isConnected.producer
    /\ ProcessSendMessage(ok)

\* The consumer's run loop hands a record to the wrapped handler.
ShutdownReceive(ok, handler) ==
    /\ isConnected.consumer
    /\ ProcessReceiveMessage(ok, handler)

\* A timer fires; the sendFn invocation of a duplicate can succeed only
\* while the producer is connected.
ShutdownTimerFires(t, ok) ==
    /\ (t.kind = "duplicate" /\ ok) => isConnected.producer
    /\ TimerFires(1, t, ok)

NextShutdown ==
    \/ \E ok \in BOOLEAN : ShutdownSend(ok)
    \/ \E ok \in BOOLEAN, handler \in Handlers : ShutdownReceive(ok, handler)
    \/ \E node \in WrappedNodes : Disconnect(node)
    \/ \E s \in proxy[1].sends, d \in DuplicateDelays : SendFnSettles(1, s, d)
    \/ \E f \in proxy[1].flushes : HandlerFinishes(1, f)
    \/ \E t \in proxy[1].timers, ok \in BOOLEAN : ShutdownTimerFires(t, ok)

SpecShutdown == InitShutdown /\ [][NextShutdown]_vars

\* C26: disconnecting a node leaves every pending timer pending, and no step
\* other than the firing of a timer removes one, so a delivery or a duplicate
\* send scheduled before the shutdown still runs after it.
C26_NoCancellation ==
    [][/\ lastStep'.op = "disconnect" => proxy'[1].timers = proxy[1].timers
       /\ lastStep'.op \notin {"deliver", "duplicate"} =>
              proxy[1].timers \subseteq proxy'[1].timers]_vars

\* C26 witness: both nodes are disconnected, a delayed delivery has just
\* invoked the handler, and the timer of a duplicate send is still pending.
C26_Witness ==
    /\ lastStep.op = "deliver"
    /\ ~isConnected.consumer
    /\ ~isConnected.producer
    /\ proxy[1].delivered # <<>>
    /\ proxy[1].delivered[Len(proxy[1].delivered)].via = "timer"
    /\ \E t \in proxy[1].timers : t.kind = "duplicate"

(***************************************************************************)
(* Specification SpecSnapshot: one ChaosProxy whose caller also takes      *)
(* snapshots with getStats() and getConfig() and writes into the objects   *)
(* it was handed; it takes each of the two snapshots once.                 *)
(***************************************************************************)
SnapshotConfigs ==
    {[reorderWindow |-> 0, duplicateRate |-> 0],
     [reorderWindow |-> 2, maxDelayMs |-> 0, duplicateRate |-> 0]}
SnapshotUpdates == {[dropRate |-> 100]}

\* The assignments a caller tries on a snapshot of the stats and of the
\* config.
StatsWrites == {<<"sent", 9>>}
ConfigWrites == {<<"enabled", FALSE>>}

InitSnapshot ==
    /\ InitMsgVars
    /\ InitFn
    /\ InitConsVars
    /\ nCalls = 0
    /\ lastStep = NoStep
    /\ isConnected = Connected
    /\ \E config \in SnapshotConfigs : proxy = [i \in {1} |-> ChaosProxy(config)]

\* The caller holds an object handed out by getStats ("stats") or by
\* getConfig ("config").
holds(p, of) == \E k \in 1..Len(p.snapshots) : p.snapshots[k].of = of

\* const stats = chaos.getStats()
GetStats ==
    /\ ~holds(proxy[1], "stats")
    /\ proxy' = [proxy EXCEPT ![1].snapshots = Append(@, getStats(proxy[1]))]
    /\ lastStep' = Step("getStats", 1, Len(proxy[1].snapshots) + 1, TRUE, <<>>)
    /\ UNCHANGED <<nCalls, otherVars>>

\* const config = chaos.getConfig()
GetConfig ==
    /\ ~holds(proxy[1], "config")
    /\ proxy' = [proxy EXCEPT ![1].snapshots = Append(@, getConfig(proxy[1]))]
    /\ lastStep' = Step("getConfig", 1, Len(proxy[1].snapshots) + 1, TRUE, <<>>)
    /\ UNCHANGED <<nCalls, otherVars>>

\* The caller writes a new value into a field of the k-th object it holds.
AssignSnapshot(k, write) ==
    /\ k \in 1..Len(proxy[1].snapshots)
    /\ write \in (IF proxy[1].snapshots[k].of = "stats" THEN StatsWrites
                  ELSE ConfigWrites)
    /\ contents(proxy[1], proxy[1].snapshots[k])[write[1]] # write[2]
    /\ proxy' = [proxy EXCEPT ![1] = assign(@, k, write[1], write[2])]
    /\ lastStep' = Step("assign", 1, k, TRUE, <<>>)
    /\ UNCHANGED <<nCalls, otherVars>>

NextSnapshot ==
    \/ ProcessSendMessage(TRUE)
    \/ \E handler \in Handlers : ProcessReceiveMessage(TRUE, handler)
    \/ \E newConfig \in SnapshotUpdates : UpdateConfig(newConfig)
    \/ ResetStats
    \/ \E s \in proxy[1].sends, d \in DuplicateDelays : SendFnSettles(1, s, d)
    \/ \E f \in proxy[1].flushes : HandlerFinishes(1, f)
    \/ GetStats
    \/ GetConfig
    \/ \E k \in 1..Len(proxy[1].snapshots), write \in StatsWrites \cup ConfigWrites :
           AssignSnapshot(k, write)

SpecSnapshot == InitSnapshot /\ [][NextSnapshot]_vars

\* The proxy without the objects it has handed out.
engineOf(p) == [p EXCEPT !.snapshots = <<>>]

\* C23: getStats() and getConfig() hand out the values the proxy has at the
\* call; a write into an object handed out changes nothing of the proxy
\* (so neither its behaviour nor what getStats()/getConfig() return later)
\* and no other object handed out; and a step of the proxy changes no
\* object handed out before.
C23_SnapshotSemantics ==
    [][LET p == proxy[1]
           q == proxy'[1]
           n == Len(p.snapshots)
       IN  /\ lastStep'.op = "assign" =>
                  /\ engineOf(q) = engineOf(p)
                  /\ \A k \in 1..n : k # lastStep'.call =>
                         contents(q, q.snapshots[k]) = contents(p, p.snapshots[k])
           /\ lastStep'.op # "assign" =>
                  \A k \in 1..n :
                      contents(q, q.snapshots[k]) = contents(p, p.snapshots[k])
           /\ lastStep'.op = "getStats" =>
                  contents(q, q.snapshots[n + 1]) = p.stats /\ engineOf(q) = engineOf(p)
           /\ lastStep'.op = "getConfig" =>
                  contents(q, q.snapshots[n + 1]) = p.config /\ engineOf(q) = engineOf(p)]_vars

\* C23 witness: the caller holds a snapshot of the stats and one of the
\* config, has written into both, and the proxy has counted a call since.
C23_Witness ==
    LET p == proxy[1]
    IN  /\ Len(p.snapshots) = 2
        /\ \E k \in 1..2 : p.snapshots[k].of = "stats"
               /\ contents(p, p.snapshots[k]).sent = 9 /\ p.stats.sent \in 1..3
        /\ \E k \in 1..2 : p.snapshots[k].of = "config"
               /\ ~contents(p, p.snapshots[k]).enabled /\ p.config.enabled
        /\ lastStep.op \in {"processSendMessage", "processReceiveMessage"}

(***************************************************************************)
(* Specification SpecScenarioA: the no-chaos configuration.  Envelopes are *)
(* sent through the proxy (calls 1..MaxCalls, every sendFn succeeding) and *)
(* the ordered transport hands each published envelope, in the order of    *)
(* publication, to processReceiveMessage (call MaxCalls + k for the        *)
(* envelope of send k).                                                    *)
(***************************************************************************)
ScenarioAConfig ==
    [dropRate |-> 0, duplicateRate |-> 0, maxDelayMs |-> 0, reorderWindow |-> 0,
     seed |-> 12345]

InitScenarioA ==
    /\ InitMsgVars
    /\ InitFn
    /\ InitConsVars
    /\ nCalls = 0
    /\ lastStep = NoStep
    /\ isConnected = Connected
    /\ proxy = [i \in {1} |-> ChaosProxy(ScenarioAConfig)]

\* The envelopes the transport has handed over so far.
receivedOf(p) == {k \in 1..MaxCalls : p.results[MaxCalls + k] # "none"}

\* The transport hands envelope k to the receive side.
TransportDelivers(k, ok, handler) ==
    /\ \E n \in 1..Len(proxy[1].sendFnCalls) : proxy[1].sendFnCalls[n].call = k
    /\ k \notin receivedOf(proxy[1])
    /\ \A j \in 1..(k - 1) : j \in receivedOf(proxy[1])
    /\ proxy' = [i \in DOMAIN proxy |->
           processReceiveMessage(proxy[i], MaxCalls + k, [id |-> k, ok |-> ok], handler)]
    /\ lastStep' = Step("processReceiveMessage", 0, MaxCalls + k, ok, <<>>)
    /\ UNCHANGED <<nCalls, otherVars>>

NextScenarioA ==
    \/ ProcessSendMessage(TRUE)
    \/ \E k \in 1..MaxCalls, ok \in BOOLEAN, handler \in Handlers :
           TransportDelivers(k, ok, handler)
    \/ \E i \in DOMAIN proxy : \E s \in proxy[i].sends, d \in DuplicateDelays :
           SendFnSettles(i, s, d)
    \/ \E i \in DOMAIN proxy : \E f \in proxy[i].flushes : HandlerFinishes(i, f)

SpecScenarioA == InitScenarioA /\ [][NextScenarioA]_vars

ProducerNode == "sat-1"
WrappedPayloads == {Text(<<65>>), Num(7)}
WrappedConfigs == {[seed |-> 12345], [duplicateRate |-> 100]}

\* KafkaProducer.sendMessage run by one sendFn invocation of call "call":
\* createMessage, then producer.send (ok: whether it succeeds).
ProducerSendMessage(call, dup, messageType, payload, ok) ==
    \E r \in {createMessage(sequenceCounters, uuidCount, ProducerNode, messageType,
                            payload, Undef, 1)} :
        /\ sequenceCounters' = r.counters
        /\ uuidCount' = r.uuids
        /\ issued' = IF r.threw THEN issued
                     ELSE [issued EXCEPT ![ProducerNode] =
                              Append(@, r.envelope.sequenceNumber.v)]
        /\ lastMsg' = [op |-> "create", threw |-> r.threw, envelope |-> r.envelope]
        /\ published' =
               IF ok /\ ~r.threw
               THEN Append(published,
                           [call |-> call, dup |-> dup, envelope |-> r.envelope])
               ELSE published

\* The record the original sendFn invocation of a call published.
originalOf(call) ==
    CHOOSE m \in 1..Len(published) : published[m].call = call /\ ~published[m].dup

InitWrapped ==
    /\ InitMsgVars
    /\ InitFn
    /\ InitConsVars
    /\ nCalls = 0
    /\ lastStep = NoStep
    /\ isConnected = Connected
    /\ \E config \in WrappedConfigs : proxy = [i \in {1} |-> ChaosProxy(config)]

\* chaoticProducer.sendMessage(topic, messageType, payload); sendFn rejects
\* when createMessage throws or producer.send fails.
WrappedSendMessage(messageType, payload, ok) ==
    /\ nCalls < MaxCalls
    /\ nCalls' = nCalls + 1
    /\ \E q \in {processSendMessage(proxy[1], nCalls + 1,
                                     ok /\ ~calculateChecksum(payload).threw)} :
           /\ proxy' = [i \in DOMAIN proxy |-> q]
           /\ IF Len(q.sendFnCalls) > Len(proxy[1].sendFnCalls)
              THEN ProducerSendMessage(nCalls + 1, FALSE, messageType, payload, ok)
              ELSE UNCHANGED msgVars
    /\ lastStep' = Step("processSendMessage", 0, nCalls + 1, ok, <<>>)
    /\ UNCHANGED <<fnVars, consVars, isConnected>>

\* The duplicate's timer fires and its callback invokes sendFn again.
WrappedTimerFires(t, ok) ==
    /\ t \in proxy[1].timers
    /\ t.kind = "duplicate"
    /\ proxy' = [proxy EXCEPT ![1] = fireTimer(@, t, ok)]
    /\ LET original == published[originalOf(t.call)].envelope
       IN  ProducerSendMessage(t.call, TRUE, original.messageType.v,
                               original.payload, ok)
    /\ lastStep' = Step(t.kind, 1, t.call, ok, <<>>)
    /\ UNCHANGED <<nCalls, fnVars, consVars, isConnected>>

NextWrapped ==
    \/ \E messageType \in MessageTypes, payload \in WrappedPayloads, ok \in BOOLEAN :
           WrappedSendMessage(messageType, payload, ok)
    \/ \E s \in proxy[1].sends, d \in DuplicateDelays : SendFnSettles(1, s, d)
    \/ \E t \in proxy[1].timers, ok \in BOOLEAN : WrappedTimerFires(t, ok)

SpecWrapped == InitWrapped /\ [][NextWrapped]_vars

\* C15: the record a duplicate sendFn invocation publishes has the
\* messageId, the sequenceNumber and the payload of the record the original
\* invocation of the same call published.
C15_DuplicateIdentical ==
    \A m, n \in 1..Len(published) :
        (published[m].call = published[n].call /\ ~published[m].dup
            /\ published[n].dup) =>
               /\ published[n].envelope.messageId = published[m].envelope.messageId
               /\ published[n].envelope.sequenceNumber
                      = published[m].envelope.sequenceNumber
               /\ published[n].envelope.payload = published[m].envelope.payload

(***************************************************************************)
(* Specification SpecDrop: the wrapped producer sending telemetry under    *)
(* configurations that drop some, all or none of the messages.             *)
(***************************************************************************)
DropConfigs ==
    {[seed |-> 12345],
     [duplicateRate |-> 100],
     [dropRate |-> 100],
     [dropRate |-> 50, seed |-> -7],
     [dropRate |-> 100, enabled |-> FALSE]}

InitDrop ==
    /\ InitMsgVars
    /\ InitFn
    /\ InitConsVars
    /\ nCalls = 0
    /\ lastStep = NoStep
    /\ isConnected = Connected
    /\ \E config \in DropConfigs : proxy = [i \in {1} |-> ChaosProxy(config)]

NextDrop ==
    \/ \E ok \in BOOLEAN : WrappedSendMessage("TELEMETRY", Text(<<65>>), ok)
    \/ \E s \in proxy[1].sends, d \in DuplicateDelays : SendFnSettles(1, s, d)
    \/ \E t \in proxy[1].timers, ok \in BOOLEAN : WrappedTimerFires(t, ok)

SpecDrop == InitDrop /\ [][NextDrop]_vars

\* C27: a wrapped send made while chaos is enabled and whose first draw is
\* below dropRate adds one to sent and one to dropped and changes no other
\* counter, makes that one draw only, returns null, invokes no sendFn (so
\* no messageId and no sequence number is allocated and nothing is
\* published) and schedules nothing; and no sendFn invocation and no timer
\* ever belongs to a call that returned null.
C27_DroppedNeverSent ==
    [][LET p == proxy[1]
           q == proxy'[1]
           call == lastStep'.call
       IN  /\ (/\ lastStep'.op = "processSendMessage"
                /\ p.config.enabled
                /\ lessThanRate(random(p).state, p.config.dropRate)) =>
                  /\ q.stats = [p.stats EXCEPT !.sent = @ + 1, !.dropped = @ + 1]
                  /\ q.state = random(p).state
                  /\ q.results[call] = "null"
                  /\ q.sendFnCalls = p.sendFnCalls
                  /\ q.sends = p.sends
                  /\ q.timers = p.timers
                  /\ sequenceCounters' = sequenceCounters
                  /\ uuidCount' = uuidCount
                  /\ published' = published
           /\ \A k \in 1..Len(q.sendFnCalls) :
                  q.results[q.sendFnCalls[k].call] # "null"
           /\ \A t \in q.timers : q.results[t.call] # "null"
           /\ \A m \in 1..Len(published') :
                  q.results[published'[m].call] # "null"]_vars

\* C27 witness: with dropRate 0.1, a send was dropped after an earlier one
\* had been published.
C27_Witness ==
    /\ lastStep.op = "processSendMessage"
    /\ proxy[1].config.dropRate = 10
    /\ proxy[1].results[lastStep.call] = "null"
    /\ proxy[1].stats.sent = 2
    /\ proxy[1].stats.dropped = 1
    /\ Len(published) = 1

(***************************************************************************)
(* Specification SpecGapFree: the wrapped producer of SpecDrop sending     *)
(* payloads that createMessage accepts or rejects.                         *)
(***************************************************************************)
GapFreePayloads == {Text(<<65>>), Undef}

NextGapFree ==
    \/ \E payload \in GapFreePayloads, ok \in BOOLEAN :
           WrappedSendMessage("TELEMETRY", payload, ok)
    \/ \E s \in proxy[1].sends, d \in DuplicateDelays : SendFnSettles(1, s, d)
    \/ \E t \in proxy[1].timers, ok \in BOOLEAN : WrappedTimerFires(t, ok)

SpecGapFree == InitDrop /\ [][NextGapFree]_vars

TypedConfigs == {[reorderWindow |-> 2], [reorderWindow |-> 2, maxDelayMs |-> 0]}

\* The handlers the application registered with chaoticConsumer.onMessage.
handlerFor == [TELEMETRY |-> "onTelemetry", COMMAND |-> "onCommand"]

InitTyped ==
    /\ InitMsgVars
    /\ InitFn
    /\ InitConsVars
    /\ nCalls = 0
    /\ lastStep = NoStep
    /\ isConnected = Connected
    /\ \E config \in TypedConfigs : proxy = [i \in {1} |-> ChaosProxy(config)]

\* The consumer hands an envelope of type messageType to the wrapper
\* registered for that type.
ConsumerReceives(ok, messageType) ==
    /\ nCalls < MaxCalls
    /\ nCalls' = nCalls + 1
    /\ proxy' = [i \in DOMAIN proxy |->
           processReceiveMessage(
               proxy[i], nCalls + 1,
               [id |-> nCalls + 1, ok |-> ok, messageType |-> messageType],
               handlerFor[messageType])]
    /\ lastStep' = Step("processReceiveMessage", 0, nCalls + 1, ok, <<>>)
    /\ UNCHANGED otherVars

NextTyped ==
    \/ \E ok \in BOOLEAN, messageType \in DOMAIN handlerFor :
           ConsumerReceives(ok, messageType)
    \/ \E f \in proxy[1].flushes : HandlerFinishes(1, f)
    \/ \E t \in proxy[1].timers, ok \in BOOLEAN : TimerFires(1, t, ok)

SpecTyped == InitTyped /\ [][NextTyped]_vars

\* C33: an envelope is dispatched to the handler it was passed with, which
\* for the wrapped consumer is the handler registered for its type: every
\* delivery timer holds that handler, and every handler invoked inline on an
\* envelope of the reorder buffer is that handler.
C33_HandlerFidelity ==
    [][LET p == proxy[1]
           q == proxy'[1]
           buffered == {q.messageBuffer[k] : k \in 1..Len(q.messageBuffer)}
                           \cup {p.messageBuffer[k] : k \in 1..Len(p.messageBuffer)}
       IN  /\ \A t \in q.timers :
                  t.kind = "deliver" => t.handler = handlerFor[t.envelope.messageType]
           /\ \A k \in 1..Len(q.delivered) : \A e \in buffered :
                  (k > Len(p.delivered) /\ q.delivered[k].id = e.id) =>
                      q.delivered[k].handler = handlerFor[e.messageType]]_vars

\* C34: as long as no call has failed, also when receives arrive while a
\* flush is suspended on an inline handler, no envelope has been handed to a
\* handler twice, and every envelope received is in the buffer, still to be
\* delivered by a suspended flush, held by a delivery timer, or delivered.
C34_NoLossNoDoubleDelivery ==
    LET p == proxy[1]
        waiting == {p.messageBuffer[k].id : k \in 1..Len(p.messageBuffer)}
                       \cup UNION {{f.rest[k].id : k \in 1..Len(f.rest)} :
                                      f \in p.flushes}
    IN  (\A c \in CallIds : p.results[c] # "error") =>
            /\ \A j, k \in 1..Len(p.delivered) :
                   j # k => p.delivered[j].id # p.delivered[k].id
            /\ 1..nCalls \subseteq waiting \cup dispatchedIds(p)

====
